---- MODULE Spec2Model ----
(***************************************************************************)
(* A model of the bankadsapi targeting and serving pipeline: the sliding-  *)
(* window rate limiter, the serve orchestrator with its personalised cache *)
(* and user-profile store, the filters, and createAd's cache invalidation. *)
(* Times are milliseconds since the epoch, as Date.now() gives them.       *)
(***************************************************************************)
EXTENDS Integers, Sequences, FiniteSets, TLC

VARIABLES
    now,            \* Date.now(): the wall clock, in ms
    nticks,         \* how many times the clock has advanced
    redisAvailable, \* config/redis.ts: the availability flag
    kvUp,           \* whether the KV answers the commands sent to it
    buckets,        \* the KV's rate-limit sorted sets: key -> set of <<score, suffix>>
    bucketExp,      \* the KV's expiry time of each rate-limit key (ms)
    seen,           \* per rate-limit key: the checks made on it so far (history)
    ncalls,         \* how many rate-limited requests were handled
    rl,             \* what the last rate-limited request did: its checks and its answer
    rlTasks,        \* the checks whose pipeline the KV executes command by command
    fin,            \* the arguments a targeting function is applied to
    fout,           \* what the function returned (fn "none" before the call)
    catalog,        \* the ads collection: a set of ad documents
    cache,          \* the KV's personalised serve cache: key -> entry
    profiles,       \* the KV's user profiles: key -> entry
    riTasks,        \* recordImpression calls whose read is done and whose write is not
    invTasks,       \* invalidateCacheForAd calls in progress
    nserves,        \* how many serve requests were handled
    ncreates,       \* how many createAd requests were handled
    ntracks,        \* how many trackImpression requests were handled
    tk,             \* what the last trackImpression request answered
    svTasks,        \* serve requests waiting for the catalog query's answer
    invDone,        \* the createAd bodies whose invalidation ran to its end (history)
    sv,             \* what the last serve request did and answered
    ri,             \* what the last finished recordImpression did
    ca              \* what the last createAd answered, and the last finished invalidation

rlVars == <<buckets, bucketExp, seen, ncalls, rl, rlTasks>>
fnVars == <<fin, fout>>
adState == <<catalog, cache, profiles, riTasks, invTasks, nserves, ncreates, ntracks, tk, svTasks, invDone>>
adVars == <<catalog, cache, profiles, riTasks, invTasks, nserves, ncreates, ntracks, tk,
           svTasks, invDone, sv, ri, ca>>
vars == <<now, nticks, redisAvailable, kvUp, buckets, bucketExp, seen, ncalls, rl, rlTasks,
          fin, fout, catalog, cache, profiles, riTasks, invTasks, nserves, ncreates,
          ntracks, tk, svTasks, invDone, sv, ri, ca>>

-----------------------------------------------------------------------------
(* Bounds of the model *)

\* how many values Math.random().toString(36).slice(2, 8) can take
NumSuffixes == 2
\* how many rate-limited requests a behaviour holds
MaxCalls == 4
\* how many trackImpression requests a behaviour holds
MaxTracks == 2
\* how many serve requests a behaviour of the two twin customers holds
MaxTwinServes == 2
\* how many serve requests a behaviour with createAd beside waiting serves holds
MaxRaceServes == 2
\* how many times the clock advances
MaxTicks == 2
\* how many requests of banks of any tier a behaviour holds
MaxTierCalls == 3
\* how many requests of a kind read the availability flag between the
\* connection's events
MaxFlagReads == 1
\* how many checks run with their pipelines interleaved, and how many of them
\* at a time
MaxPipeCalls == 4
MaxInFlight == 2
\* how many times the clock advances, by 1 ms, between the layered limiter's requests
MaxLayeredTicks == 1
\* the longest impression list of a profile the frequency cap is applied to
MaxProfileLen == 5
\* how many serve and createAd requests a run of the serving system handles
MaxServes == 2
MaxCreates == 1
\* how many times the clock advances in a run of the serving system
MaxServeTicks == 1
\* how many serve requests run beside a createAd
MaxCreateServes == 1
\* the longest list of ads filterByTimeSlot is applied to
MaxSlotAds == 2
\* the longest list of candidates scoreAds is applied to
MaxCandidates == 3
\* TARGETING_CONFIG.rateLimit.maxRequests, scaled down from 100
maxRequests == 2
\* RATE_LIMIT_TIERS.standard.maxRequests, scaled down from 500
standardMax == 3
\* RATE_LIMIT_TIERS.premium.maxRequests, scaled down from 1000
premiumMax == 4
\* RATE_LIMIT_TIERS.enterprise.maxRequests, scaled down from 5000
enterpriseMax == 5

-----------------------------------------------------------------------------
(* Program constants *)

windowSeconds == 60
tierWindowSeconds == 60

-----------------------------------------------------------------------------
(* The KV's sorted-set commands and the sliding-window step *)

Suffixes == 0 .. (NumSuffixes - 1)
\* The suffix a check draws either repeats one drawn in the same millisecond on
\* the same key or is new; which new one it is makes no difference, so the
\* smallest is taken.
Drawn(set, t) == {m[2] : m \in {x \in set : x[1] = t}}
CanDraw(set, t) == {s \in Suffixes : \A r \in Suffixes : r < s => r \in Drawn(set, t)}
Ips == {"ip1", "ip2"}
PlainIps == {"ip1"}
ApiKeys == {"none", "key1"}
\* how pipeline.exec() ends: every command answered, the commands answered with
\* errors, or the promise rejected; the last two when the KV does not answer
PipeOutcomes == IF kvUp THEN {"ok"} ELSE {"cmderr", "throw"}

\* the bucket key of rate-limiter.ts, and the two keys of the layered limiter
PlainKey(ip) == <<"ratelimit", ip>>
IpKey(ip) == <<"ratelimit", "ip", ip>>
ApiKeyKey(k) == <<"ratelimit", "apikey", k>>
RLKeys == {PlainKey(i) : i \in PlainIps} \cup {IpKey(i) : i \in Ips}
              \cup {ApiKeyKey(k) : k \in ApiKeys \ {"none"}}

\* a key whose TTL has run out reads as an empty set
ZLive(key) == IF now > bucketExp[key] THEN {} ELSE buckets[key]

windowStart(t, ws) == t - ws * 1000

\* a removal that spares the members whose score is exactly hi
zremrangebyscoreBelow(set, hi) == {m \in set : ~(0 <= m[1] /\ m[1] < hi)}

\* ZREMRANGEBYSCORE key 0 hi: drops the members with 0 <= score <= hi
zremrangebyscore(set, hi) == {m \in set : ~(0 <= m[1] /\ m[1] <= hi)}

\* ZADD key now "{now}:{suffix}": a member already there is not added again
zadd(set, t, sfx) == set \cup {<<t, sfx>>}

\* Pipeline without its first command: old members are never removed
PipelineNoRemove(set, t, sfx, ws) ==
    LET after == zadd(set, t, sfx)
    IN  [set |-> after, count |-> Cardinality(after)]

\* the pipelined commands; the value is the set left and ZCARD's answer
Pipeline(set, t, sfx, ws) ==
    LET after == zadd(zremrangebyscore(set, windowStart(t, ws)), t, sfx)
    IN  [set |-> after, count |-> Cardinality(after)]

Exceeded(count, max) == count > max

\* DenyResponse with the remaining requests computed as for an admitted request
\* and next() still called
DenyResponseThrough(ws, max) ==
    [status |-> 429, retryAfter |-> ws, limit |-> max, remaining |-> max, nextCalls |-> 1]

DenyResponse(ws, max) ==
    [status |-> 429, retryAfter |-> ws, limit |-> max, remaining |-> 0, nextCalls |-> 0]

AdmitResponse(max, count) ==
    [status |-> 200, retryAfter |-> -1, limit |-> max, remaining |-> max - count,
     nextCalls |-> 1]

\* fail open: next() with no header set
FailOpenResponse ==
    [status |-> 200, retryAfter |-> -1, limit |-> -1, remaining |-> -1, nextCalls |-> 1]

NoResponse ==
    [status |-> 0, retryAfter |-> -1, limit |-> -1, remaining |-> -1, nextCalls |-> 0]

\* the highest score among a sorted set's members, 0 for an empty set
NewestScore(set) ==
    IF set = {} THEN 0 ELSE CHOOSE x \in {m[1] : m \in set} : \A m \in set : m[1] <= x

\* one check on a key, as the request's record keeps it; added says whether
\* ZADD's member was new, newest is the score of the youngest member the key
\* held before. clean says every check on the key so far executed; while it
\* does, k is the check's ordinal among the checks on the key and first the
\* time of the first of them
CheckRec(key, pipe, sfx, max, ws) ==
    LET res == Pipeline(ZLive(key), now, sfx, ws)
        count == IF pipe = "ok" THEN res.count ELSE 0
    IN  [key |-> key, pipe |-> pipe, count |-> count, max |-> max, ws |-> ws,
         exceeded |-> pipe # "throw" /\ Exceeded(count, max),
         before |-> Cardinality(ZLive(key)),
         added |-> pipe = "ok" /\ <<now, sfx>> \notin zremrangebyscore(ZLive(key), windowStart(now, ws)),
         newest |-> NewestScore(buckets[key]),
         k |-> IF seen[key].clean /\ pipe = "ok" THEN seen[key].n + 1 ELSE 0,
         clean |-> seen[key].clean /\ pipe = "ok",
         first |-> IF ~(seen[key].clean /\ pipe = "ok") THEN 0
                   ELSE IF seen[key].n = 0 THEN now ELSE seen[key].first]

\* the KV and the history after the checks cs (a sequence of check records whose
\* keys differ), made with the suffixes sfxs
AfterChecks(cs, sfxs) ==
    LET K == {cs[i].key : i \in 1 .. Len(cs)}
        At(key) == CHOOSE i \in 1 .. Len(cs) : cs[i].key = key
    IN  /\ buckets' = [key \in RLKeys |->
              IF key \in K /\ cs[At(key)].pipe = "ok"
              THEN Pipeline(ZLive(key), now, sfxs[At(key)], cs[At(key)].ws).set
              ELSE buckets[key]]
        /\ bucketExp' = [key \in RLKeys |->
              IF key \in K /\ cs[At(key)].pipe = "ok"
              THEN now + cs[At(key)].ws * 1000
              ELSE bucketExp[key]]
        /\ seen' = [key \in RLKeys |->
              IF key \in K
              THEN [n |-> cs[At(key)].k, clean |-> cs[At(key)].clean,
                    first |-> cs[At(key)].first]
              ELSE seen[key]]

-----------------------------------------------------------------------------
(* rate-limiter.ts: the single-layer middleware *)

rateLimiter(ip, pipe, sfx) ==
    LET c == CheckRec(PlainKey(ip), pipe, sfx, maxRequests, windowSeconds)
    IN  /\ ncalls < MaxCalls
        /\ ncalls' = ncalls + 1
        /\ AfterChecks(<<c>>, <<sfx>>)
        /\ rl' = [impl |-> "plain", flag |-> redisAvailable, t |-> now, checks |-> <<c>>,
                  resp |-> IF pipe = "throw" THEN FailOpenResponse
                           ELSE IF c.exceeded
                                THEN DenyResponse(windowSeconds, maxRequests)
                                ELSE AdmitResponse(maxRequests, c.count)]
        /\ UNCHANGED <<now, nticks, redisAvailable, kvUp, rlTasks, fnVars, adVars>>

-----------------------------------------------------------------------------
(* rate-limiter.ts with the KV executing the pipelines of several servers' *)
(* checks command by command, in any interleaving *)

\* a key with members and no TTL: ZADD on a key that does not exist, until
\* EXPIRE runs
NoExpiry == 2000000000

PipeCommands == <<"zremrangebyscore", "zadd", "zcard", "expire">>

Unfinished == {i \in 1 .. Len(rlTasks) : rlTasks[i].pc <= Len(PipeCommands)}

\* the handler up to pipeline.exec(): now = Date.now() is read and the
\* commands are queued; the members of different checks are taken distinct
checkStart(ip) ==
    /\ ncalls < MaxPipeCalls
    /\ Cardinality(Unfinished) < MaxInFlight
    /\ ncalls' = ncalls + 1
    /\ rlTasks' = Append(rlTasks, [key |-> PlainKey(ip), t |-> now, sfx |-> ncalls,
                                   pc |-> 1, count |-> 0, admitted |-> FALSE])
    /\ UNCHANGED <<now, nticks, redisAvailable, kvUp, buckets, bucketExp, seen, rl,
                   fnVars, adVars>>

\* the KV executes the next command of check i's pipeline; after the last one
\* the handler compares the count with maxRequests
pipeStep(i) ==
    LET task == rlTasks[i]
        cmd == PipeCommands[task.pc]
        set == ZLive(task.key)
        after == CASE cmd = "zremrangebyscore" ->
                        zremrangebyscore(set, windowStart(task.t, windowSeconds))
                   [] cmd = "zadd" -> zadd(set, task.t, task.sfx)
                   [] OTHER -> set
    IN  /\ i \in Unfinished
        /\ kvUp
        /\ buckets' = [buckets EXCEPT ![task.key] = after]
        /\ bucketExp' = [bucketExp EXCEPT ![task.key] =
              IF cmd = "expire" /\ set # {} THEN now + windowSeconds * 1000
              ELSE IF cmd = "zadd" /\ set = {} THEN NoExpiry
              ELSE @]
        /\ rlTasks' = [rlTasks EXCEPT ![i] =
              [task EXCEPT !.pc = @ + 1,
                           !.count = IF cmd = "zcard" THEN Cardinality(set) ELSE @,
                           !.admitted = cmd = "expire" /\ ~Exceeded(task.count, maxRequests)]]
        /\ UNCHANGED <<now, nticks, redisAvailable, kvUp, seen, ncalls, rl, fnVars, adVars>>

-----------------------------------------------------------------------------
(* The layered middleware: per-IP, then per-API-key *)

\* RATE_LIMIT_TIERS, and what c.get("bank")?.rateLimitTier can be: a tier of the
\* schema's enum, or nothing (no bank on the context, or a bank without a tier)
Tiers == {"standard", "premium", "enterprise"}
BankTiers == Tiers \cup {"undefined"}

\* bank?.rateLimitTier || "standard"
TierOf(bankTier) == IF bankTier = "undefined" THEN "standard" ELSE bankTier

\* a table in which every tier has the limits of the standard tier
TierConfigStandardOnly(tier) ==
    [maxRequests |-> standardMax, windowSeconds |-> tierWindowSeconds]

\* RATE_LIMIT_TIERS[tier]
TierConfig(tier) ==
    [maxRequests |-> CASE tier = "standard" -> standardMax
                       [] tier = "premium" -> premiumMax
                       [] tier = "enterprise" -> enterpriseMax,
     windowSeconds |-> tierWindowSeconds]

rateLimiterLayered(ip, apiKey, bankTier, pipe1, sfx1, pipe2, sfx2) ==
    LET c1 == CheckRec(IpKey(ip), pipe1, sfx1, maxRequests, windowSeconds)
        cfg == TierConfig(TierOf(bankTier))
        c2 == CheckRec(ApiKeyKey(apiKey), pipe2, sfx2, cfg.maxRequests, cfg.windowSeconds)
        \* the checks that ran: none with the flag down, the second only for a
        \* request with a key that the first admitted
        ran == IF ~redisAvailable THEN <<>>
               ELSE IF pipe1 = "throw" \/ c1.exceeded \/ apiKey = "none" THEN <<c1>>
               ELSE <<c1, c2>>
    IN  /\ ncalls < MaxCalls
        /\ ncalls' = ncalls + 1
        /\ (Len(ran) < 2 => pipe2 = "ok" /\ sfx2 = 0)
        /\ (Len(ran) < 1 => pipe1 = "ok" /\ sfx1 = 0)
        /\ AfterChecks(ran, <<sfx1, sfx2>>)
        /\ rl' = [impl |-> "layered", flag |-> redisAvailable, t |-> now, checks |-> ran,
                  req |-> [ip |-> ip, apiKey |-> apiKey, bankTier |-> bankTier],
                  resp |-> IF ~redisAvailable \/ pipe1 = "throw" THEN FailOpenResponse
                           ELSE IF c1.exceeded
                                THEN DenyResponse(windowSeconds, maxRequests)
                           ELSE IF apiKey = "none"
                                THEN AdmitResponse(maxRequests, c1.count)
                           ELSE IF pipe2 = "throw" THEN FailOpenResponse
                           ELSE IF c2.exceeded
                                THEN DenyResponse(cfg.windowSeconds, cfg.maxRequests)
                                ELSE AdmitResponse(cfg.maxRequests, c2.count)]
        /\ UNCHANGED <<now, nticks, redisAvailable, kvUp, rlTasks, fnVars, adVars>>

-----------------------------------------------------------------------------
(* The serve request's values, and the KV's cache and profile entries *)

\* JSON values of a request body, by their typeof
Undefined == [t |-> "undefined"]
Str(s) == [t |-> "string", s |-> s]
Num(n) == [t |-> "number", n |-> n]

\* customer ids are strings, kept as their characters
ValidCustomers == {Str(<<"c", ":", "1">>)}

\* two customer ids that differ in one character, a colon for an underscore
TwinCustomers == {Str(<<"c", ":", "1">>), Str(<<"c", "_", "1">>)}

\* customerId.replace(/[:\s]/g, "_")
sanitize(s) ==
    [i \in 1 .. Len(s) |-> IF s[i] \in {":", " ", "\t", "\n"} THEN "_" ELSE s[i]]

SafeIds == {sanitize(c.s) : c \in ValidCustomers}

SegmentNames == {"low", "mass", "affluent", "hnw", "undefined"}
Channels == {"ATM", "mobile"}

\* `ad:${segment}:${channel}:${safeCustomerId}`
CacheKey(segment, channel, safeCustomerId) == <<"ad", segment, channel, safeCustomerId>>
CacheKeys == {CacheKey(s, c, i) : s \in SegmentNames, c \in Channels, i \in SafeIds}

\* `userprofile:${customerId}`
getUserProfileKey(customerId) == <<"userprofile", customerId>>
ProfileKeys == {getUserProfileKey(i) : i \in SafeIds \cup {c.s : c \in ValidCustomers}}

\* a key the KV does not hold, and a key it holds until its expiry time
NoEntry == [has |-> FALSE]
Entry(val, exp) == [has |-> TRUE, val |-> val, exp |-> exp]

\* a cache entry; kept beside the stored value as history: by, the customerId
\* of the request that wrote it, and queried, the ids of the ads the catalog
\* held when the request's query ran
CacheEntry(val, exp, by, queried) ==
    [has |-> TRUE, val |-> val, exp |-> exp, by |-> by, queried |-> queried]

\* the KV drops a key once the clock is past its expiry time
Expire(store, t) ==
    [k \in DOMAIN store |->
        IF store[k].has /\ t > store[k].exp THEN NoEntry ELSE store[k]]

\* TARGETING_CONFIG.userProfile.ttl, seconds
userProfileTtl == 86400

\* TARGETING_CONFIG.cache: the TTLs in seconds and the candidate threshold
highAvailabilityTtl == 30
lowAvailabilityTtl == 120
adThresholdForLowAvailability == 3

\* sv, ri and ca hold what the step just taken answered or wrote; every other
\* step clears them
NoServe == [status |-> 0]
NoRecord == [done |-> FALSE]
NoCreate == [status |-> 0, created |-> FALSE, started |-> FALSE, inv |-> [done |-> FALSE]]

\* no trackImpression request answered yet
NoTrack == [status |-> 0]

-----------------------------------------------------------------------------
(* The environment: the clock and the connection events *)

Deltas == {1, windowSeconds * 1000 - 1, windowSeconds * 1000}

Tick(d) ==
    /\ nticks < MaxTicks
    /\ now' = now + d
    /\ nticks' = nticks + 1
    /\ cache' = Expire(cache, now + d)
    /\ profiles' = Expire(profiles, now + d)
    /\ sv' = NoServe /\ ri' = NoRecord /\ ca' = NoCreate
    /\ UNCHANGED <<redisAvailable, kvUp, rlVars, fnVars, catalog, riTasks, invTasks,
                   nserves, ncreates, ntracks, tk, svTasks, invDone>>

\* redis.on("connect") and redis.on("ready")
RedisUp ==
    /\ redisAvailable' = TRUE
    /\ sv' = NoServe /\ ri' = NoRecord /\ ca' = NoCreate
    /\ UNCHANGED <<now, nticks, kvUp, rlVars, fnVars, adState>>

\* redis.on("close")
RedisClose ==
    /\ redisAvailable' = FALSE
    /\ sv' = NoServe /\ ri' = NoRecord /\ ca' = NoCreate
    /\ UNCHANGED <<now, nticks, kvUp, rlVars, fnVars, adState>>

\* redis.on("connect")
RedisConnect ==
    /\ redisAvailable' = TRUE
    /\ sv' = NoServe /\ ri' = NoRecord /\ ca' = NoCreate
    /\ UNCHANGED <<now, nticks, kvUp, rlVars, fnVars, adState>>

\* redis.on("ready")
RedisReady ==
    /\ redisAvailable' = TRUE
    /\ sv' = NoServe /\ ri' = NoRecord /\ ca' = NoCreate
    /\ UNCHANGED <<now, nticks, kvUp, rlVars, fnVars, adState>>

\* an error handler that takes the connection for lost
RedisErrorClears ==
    /\ redisAvailable' = FALSE
    /\ sv' = NoServe /\ ri' = NoRecord /\ ca' = NoCreate
    /\ UNCHANGED <<now, nticks, kvUp, rlVars, fnVars, adState>>

\* redis.on("error"): the message is logged
RedisError ==
    /\ sv' = NoServe /\ ri' = NoRecord /\ ca' = NoCreate
    /\ UNCHANGED <<now, nticks, redisAvailable, kvUp, rlVars, fnVars, adState>>

\* the KV stops or starts answering; the flag follows only with the next event
KvToggle ==
    /\ kvUp' = ~kvUp
    /\ sv' = NoServe /\ ri' = NoRecord /\ ca' = NoCreate
    /\ UNCHANGED <<now, nticks, redisAvailable, rlVars, fnVars, adState>>

\* no rate-limited request yet
IdleRL ==
    /\ buckets = [k \in RLKeys |-> {}]
    /\ bucketExp = [k \in RLKeys |-> 0]
    /\ seen = [k \in RLKeys |-> [n |-> 0, clean |-> TRUE, first |-> 0]]
    /\ ncalls = 0
    /\ rl = [impl |-> "none", flag |-> FALSE, t |-> 0, checks |-> <<>>, resp |-> NoResponse]
    /\ rlTasks = <<>>

\* no function applied
IdleFn ==
    /\ fin = [fn |-> "none"]
    /\ fout = [fn |-> "none"]

\* an empty catalog and an empty KV, nothing in progress
IdleAds ==
    /\ catalog = {}
    /\ cache = [k \in CacheKeys |-> NoEntry]
    /\ profiles = [k \in ProfileKeys |-> NoEntry]
    /\ riTasks = <<>>
    /\ invTasks = <<>>
    /\ nserves = 0
    /\ ncreates = 0
    /\ ntracks = 0
    /\ tk = NoTrack
    /\ svTasks = <<>>
    /\ invDone = {}
    /\ sv = NoServe
    /\ ri = NoRecord
    /\ ca = NoCreate

InitRL ==
    /\ now = windowSeconds * 1000
    /\ nticks = 0
    /\ redisAvailable = FALSE
    /\ kvUp = TRUE
    /\ IdleRL
    /\ IdleFn
    /\ IdleAds

NextRL ==
    \/ \E ip \in PlainIps, pipe \in PipeOutcomes :
         \E sfx \in CanDraw(buckets[PlainKey(ip)], now) : rateLimiter(ip, pipe, sfx)
    \/ \E d \in Deltas : Tick(d)
    \/ RedisUp
    \/ RedisClose
    \/ KvToggle

SpecRL == InitRL /\ [][NextRL]_vars

NextRL2 ==
    \/ \E ip \in Ips, apiKey \in ApiKeys, pipe1, pipe2 \in PipeOutcomes :
         \E sfx1 \in CanDraw(buckets[IpKey(ip)], now),
            sfx2 \in CanDraw(buckets[ApiKeyKey("key1")], now) :
            rateLimiterLayered(ip, apiKey, "undefined", pipe1, sfx1, pipe2, sfx2)
    \/ (nticks < MaxLayeredTicks /\ Tick(1))
    \/ RedisUp
    \/ RedisClose
    \/ KvToggle

SpecRL2 == InitRL /\ [][NextRL2]_vars

\* rate-limiter.ts on several servers that share the KV; while a pipeline is
\* in flight the clock advances by milliseconds only
NextPipe ==
    \/ \E ip \in PlainIps : checkStart(ip)
    \/ \E i \in 1 .. MaxPipeCalls : pipeStep(i)
    \/ Tick(1)
    \/ (Unfinished = {} /\ \E d \in Deltas \ {1} : Tick(d))

SpecPipe == InitRL /\ [][NextPipe]_vars

\* the layered limiter behind apiKeyAuth: the context holds the caller's bank
NextTier ==
    \/ \E ip \in PlainIps, apiKey \in ApiKeys, bankTier \in BankTiers,
          pipe1, pipe2 \in PipeOutcomes :
         \E sfx1 \in CanDraw(buckets[IpKey(ip)], now),
            sfx2 \in CanDraw(buckets[ApiKeyKey("key1")], now) :
            ncalls < MaxTierCalls
              /\ rateLimiterLayered(ip, apiKey, bankTier, pipe1, sfx1, pipe2, sfx2)
    \/ (nticks < MaxLayeredTicks /\ Tick(1))
    \/ RedisUp
    \/ RedisClose
    \/ KvToggle

SpecTier == InitRL /\ [][NextTier]_vars

-----------------------------------------------------------------------------
(* Targeting: the configuration, the catalog's ads and the user profile *)

hourMs == 3600 * 1000
dayMs == 86400 * 1000

\* TARGETING_CONFIG.frequencyCap
maxImpressionsPerDay == 3
cooldownHours == 2

\* the clock at the start of a targeting run: day 10, 10:00
T0 == 10 * dayMs + 10 * hourMs

AdIds == {"A", "B", "C", "D", "E", "F"}

Range(seq) == {seq[i] : i \in 1 .. Len(seq)}

\* a stored impression, { adId, timestamp }
Impression(adId, ts) == [adId |-> adId, timestamp |-> ts]

\* the profile getUserProfile builds when the KV has none
FreshProfile(customerId, t) ==
    [customerId |-> customerId, impressions |-> <<>>, lastUpdated |-> t]

-----------------------------------------------------------------------------
(* filterByFrequencyCap *)

\* the impressions of one ad younger than a day
todayImpressions(profile, adId, t) ==
    SelectSeq(profile.impressions,
              LAMBDA imp : imp.adId = adId /\ imp.timestamp > t - 86400 * 1000)

\* reduce((max, imp) => Math.max(max, imp.timestamp), 0)
RECURSIVE lastShownOf(_)
lastShownOf(imps) ==
    IF imps = <<>> THEN 0
    ELSE LET rest == lastShownOf(Tail(imps))
         IN  IF Head(imps).timestamp > rest THEN Head(imps).timestamp ELSE rest

\* what the filter's callback decides for one ad
FrequencyVerdict(ad, profile, t, cap, cooldownMs) ==
    LET today == todayImpressions(profile, ad.id, t)
        lastShown == lastShownOf(today)
    IN  IF Len(today) >= cap THEN "daily_cap"
        ELSE IF lastShown > 0 /\ t - lastShown < cooldownMs THEN "cooldown"
        ELSE "keep"

filterByFrequencyCapWith(ads, profile, t, cap, cooldownMs) ==
    LET Keep(ad) == FrequencyVerdict(ad, profile, t, cap, cooldownMs) = "keep"
        Drop(ad) == ~Keep(ad)
        dropped == SelectSeq(ads, Drop)
    IN  [eligible |-> SelectSeq(ads, Keep),
         excluded |-> [i \in 1 .. Len(dropped) |->
                          [adId |-> dropped[i].id,
                           why |-> FrequencyVerdict(dropped[i], profile, t, cap, cooldownMs)]]]

\* a filter whose daily cap is off by one
filterByFrequencyCapLoose(ads, profile, t) ==
    filterByFrequencyCapWith(ads, profile, t, maxImpressionsPerDay + 1,
                             cooldownHours * 3600 * 1000)

filterByFrequencyCap(ads, profile, t) ==
    filterByFrequencyCapWith(ads, profile, t, maxImpressionsPerDay,
                             cooldownHours * 3600 * 1000)

\* the ads of the model's catalog; dates are whole hours around T0
PoolAd(id, segments, channels, slots, status, startDate, priority, impressions, clicks) ==
    [id |-> id, segments |-> segments, channels |-> channels, timeSlots |-> slots,
     status |-> status, startDate |-> startDate, endDate |-> T0 + 3 * dayMs,
     priority |-> priority, impressions |-> impressions, clicks |-> clicks]

AdPool ==
    [id \in AdIds |->
       CASE id = "A" -> PoolAd("A", {"low"}, {"ATM"}, {}, "active",
                               T0 - 5 * dayMs, 5, 20, 1)
         [] id = "B" -> PoolAd("B", {"low"}, {"ATM", "mobile"}, {"morning"}, "active",
                               T0 - dayMs, 5, 0, 0)
         [] id = "C" -> PoolAd("C", {"low", "mass"}, {"ATM"}, {}, "active",
                               T0 - 2 * dayMs, 2, 10, 1)
         [] id = "D" -> PoolAd("D", {"low"}, {"ATM"}, {"night"}, "active",
                               T0 - 10 * dayMs, 1, 3, 0)
         [] id = "E" -> PoolAd("E", {"mass"}, {"mobile"}, {}, "paused",
                               T0 - dayMs, 9, 0, 0)
         [] OTHER    -> PoolAd("F", {"low"}, {"ATM"}, {}, "active",
                               T0 - 3 * dayMs, 1, 7, 0)]

-----------------------------------------------------------------------------
(* The frequency cap applied to arbitrary profiles *)

\* all sequences over a set, up to a length
RECURSIVE SeqsUpTo(_, _)
SeqsUpTo(S, n) ==
    IF n = 0 THEN {<<>>}
    ELSE LET shorter == SeqsUpTo(S, n - 1)
         IN  shorter \cup {Append(q, x) : q \in {r \in shorter : Len(r) = n - 1}, x \in S}

\* impression times on both sides of the day and the cooldown horizons
FreqStamps(t) ==
    {t - dayMs, t - dayMs + 1, t - cooldownHours * hourMs,
     t - cooldownHours * hourMs + 1}

FreqProfiles(t) ==
    {[customerId |-> "c1", impressions |-> imps, lastUpdated |-> t - 1] :
        imps \in SeqsUpTo({Impression(a, ts) : a \in {"A", "B"}, ts \in FreqStamps(t)},
                          MaxProfileLen)}

applyFrequencyCap ==
    /\ fin.fn = "filterByFrequencyCap"
    /\ fout.fn = "none"
    /\ fout' = [fn |-> "filterByFrequencyCap",
                result |-> filterByFrequencyCap(fin.ads, fin.profile, now)]
    /\ UNCHANGED <<now, nticks, redisAvailable, kvUp, rlVars, fin, adVars>>

InitFreq ==
    /\ now = T0
    /\ nticks = 0
    /\ redisAvailable = FALSE
    /\ kvUp = TRUE
    /\ IdleRL
    /\ fin \in {[fn |-> "filterByFrequencyCap", ads |-> <<AdPool["A"], AdPool["B"]>>,
                 profile |-> p] : p \in FreqProfiles(T0)}
    /\ fout = [fn |-> "none"]
    /\ IdleAds

NextFreq == applyFrequencyCap

SpecFreq == InitFreq /\ [][NextFreq]_vars

-----------------------------------------------------------------------------
(* Segment and time slot *)

\* TARGETING_CONFIG.segmentThresholds
segmentThresholdLow == 50000
segmentThresholdMass == 200000
segmentThresholdAffluent == 1000000

\* getSegment falls off its last comparison without a return: the caller gets
\* undefined, which template strings render as "undefined"
getSegment(balance) ==
    IF balance < segmentThresholdLow THEN "low"
    ELSE IF balance < segmentThresholdMass THEN "mass"
    ELSE IF balance < segmentThresholdAffluent THEN "affluent"
    ELSE "undefined"

\* TARGETING_CONFIG.timeSlots, in the order Object.entries walks them
timeSlots ==
    << [slot |-> "morning", start |-> 6, end |-> 12],
       [slot |-> "afternoon", start |-> 12, end |-> 17],
       [slot |-> "evening", start |-> 17, end |-> 21],
       [slot |-> "night", start |-> 21, end |-> 6] >>

\* new Date().getHours(), the server's clock read as UTC
getHours(t) == (t \div hourMs) % 24

\* a range test that takes no account of a range that wraps midnight
InRangeNoWrap(hour, range) == hour >= range.start /\ hour < range.end

InRange(hour, range) ==
    IF range.start < range.end
    THEN hour >= range.start /\ hour < range.end
    ELSE hour >= range.start \/ hour < range.end

\* the entries whose range holds the hour, by position
SlotHits(t) == {i \in 1 .. Len(timeSlots) : InRange(getHours(t), timeSlots[i])}

\* the first entry that holds the hour, or the default after the loop
getCurrentTimeSlot(t) ==
    LET hits == SlotHits(t)
    IN  IF hits = {} THEN "morning"
        ELSE timeSlots[CHOOSE i \in hits : \A j \in hits : i <= j].slot

\* an ad document stored without a timeSlots field
WithoutTimeSlots(ad) == [f \in DOMAIN ad \ {"timeSlots"} |-> ad[f]]

\* a test that lets only an ad without the field run all day
RunsAllDayAbsentOnly(ad) == "timeSlots" \notin DOMAIN ad

\* !ad.timeSlots || ad.timeSlots.length === 0
RunsAllDay(ad) == "timeSlots" \notin DOMAIN ad \/ ad.timeSlots = {}

filterByTimeSlot(ads, t) ==
    LET currentSlot == getCurrentTimeSlot(t)
        Keep(ad) == RunsAllDay(ad) \/ currentSlot \in ad.timeSlots
        Drop(ad) == ~Keep(ad)
        dropped == SelectSeq(ads, Drop)
    IN  [eligible |-> SelectSeq(ads, Keep),
         excluded |-> [i \in 1 .. Len(dropped) |-> dropped[i].id]]

-----------------------------------------------------------------------------
(* scoreAds: the composite score, computed exactly over a common denominator *)

\* TARGETING_CONFIG.scoreWeights, in hundredths
weightPriority == 35
weightCtr == 25
weightRecency == 20
weightFreshness == 20

\* TARGETING_CONFIG.ctr: minimumImpressions, and defaultCtr 0.02 as 1/50
minimumImpressions == 10
defaultCtrDen == 50

\* TARGETING_CONFIG.score.recencyMaxAgeDays
recencyMaxAgeDays == 30

\* maxAge in units of 30 seconds: every clock value and every date of the
\* serving model is a multiple of 30 seconds, and ages are counted in that unit
\* so that 30 days fits the integers
maxAgeUnits == recencyMaxAgeDays * (86400 \div 30)

RECURSIVE GCD(_, _)
GCD(a, b) == IF b = 0 THEN a ELSE GCD(b, a % b)
LCM(a, b) == (a \div GCD(a, b)) * b

RECURSIVE LCMOf(_)
LCMOf(S) ==
    IF S = {} THEN 1
    ELSE LET x == CHOOSE y \in S : TRUE IN LCM(x, LCMOf(S \ {x}))

MaxOf(S) == CHOOSE x \in S : \A y \in S : y <= x

\* a.priority || 1
priorityOf(ad) == IF ad.priority = 0 THEN 1 ELSE ad.priority

\* calculateCtr as a fraction
calculateCtr(impressions, clicks) ==
    IF impressions < minimumImpressions
    THEN [num |-> 1, den |-> defaultCtrDen]
    ELSE [num |-> clicks, den |-> impressions]

\* Math.min(rawCtr / 0.1, 1)
ctrScore(ad) ==
    LET raw == calculateCtr(ad.impressions, ad.clicks)
    IN  [num |-> IF 10 * raw.num < raw.den THEN 10 * raw.num ELSE raw.den,
         den |-> raw.den]

\* Math.max(0, 1 - ageMs / maxAge)
recencyScore(ad, t) ==
    LET ageUnits == (t - ad.startDate) \div (30 * 1000)
    IN  [num |-> IF maxAgeUnits - ageUnits > 0 THEN maxAgeUnits - ageUnits ELSE 0,
         den |-> maxAgeUnits]

maxPriority(ads) == MaxOf({priorityOf(ads[i]) : i \in 1 .. Len(ads)})
maxImpressions(ads) == MaxOf({ads[i].impressions : i \in 1 .. Len(ads)} \cup {1})

\* the denominator every component of every ad's score divides
ScoreScale(ads) ==
    LCMOf({maxPriority(ads), maxImpressions(ads), maxAgeUnits}
          \cup {ctrScore(ads[i]).den : i \in 1 .. Len(ads)})

\* TARGETING_CONFIG.scoreWeights as the module holds it once loaded
scoreWeights ==
    [priority |-> weightPriority, ctr |-> weightCtr, recency |-> weightRecency,
     freshness |-> weightFreshness]

\* 100 * ScoreScale(ads) * score of one ad under the weights w
ScoreUnder(w, ad, ads, t) ==
    LET L == ScoreScale(ads)
        c == ctrScore(ad)
        r == recencyScore(ad, t)
    IN  w.priority * priorityOf(ad) * (L \div maxPriority(ads))
        + w.ctr * c.num * (L \div c.den)
        + w.recency * r.num * (L \div r.den)
        + w.freshness * (maxImpressions(ads) - ad.impressions)
              * (L \div maxImpressions(ads))

\* 100 * ScoreScale(ads) * score of one ad
ScoreOf(ad, ads, t) == ScoreUnder(scoreWeights, ad, ads, t)

\* ads.map(...) from a position on
RECURSIVE ScoreFrom(_, _, _)
ScoreFrom(rest, ads, t) ==
    IF rest = <<>> THEN <<>>
    ELSE <<[ad |-> Head(rest), score |-> ScoreOf(Head(rest), ads, t)]>>
         \o ScoreFrom(Tail(rest), ads, t)

scoreAds(ads, t) == ScoreFrom(ads, ads, t)

\* scored.sort((a, b) => b.score - a.score)[0]: the sort is stable, so the
\* first of the best
Winner(scored) ==
    scored[CHOOSE i \in 1 .. Len(scored) :
              \A j \in 1 .. Len(scored) :
                  /\ scored[j].score <= scored[i].score
                  /\ (scored[j].score = scored[i].score => i <= j)]

\* a fallback that takes the first ad of the catalog's order
leastShownFirst(ads) == << ads[1] >>

\* [...eligibleAds].sort((a, b) => a.impressions - b.impressions).slice(0, 1)
leastShown(ads) ==
    << ads[CHOOSE i \in 1 .. Len(ads) :
              \A j \in 1 .. Len(ads) :
                  /\ ads[i].impressions <= ads[j].impressions
                  /\ (ads[i].impressions = ads[j].impressions => i <= j)] >>

-----------------------------------------------------------------------------
(* The targeting functions applied to arbitrary arguments *)

\* the clocks of one day: the first and the last millisecond of every hour
TargetClocks ==
    {T0 - 10 * hourMs + h * hourMs + d : h \in 0 .. 23, d \in {0, hourMs - 1}}

\* balances on both sides of every threshold
TargetBalances ==
    {0, segmentThresholdLow - 1, segmentThresholdLow, segmentThresholdMass - 1,
     segmentThresholdMass, segmentThresholdAffluent - 1, segmentThresholdAffluent,
     segmentThresholdAffluent + 1}

\* ads that differ in their time slots only: the field missing, empty, one
\* slot, two slots
SlotPool ==
    {WithoutTimeSlots(AdPool["A"]),
     AdPool["C"],
     AdPool["B"],
     [AdPool["D"] EXCEPT !.timeSlots = {"evening", "night"}]}

\* two ads that differ in nothing but their ids
TwinAd(id) ==
    PoolAd(id, {"low"}, {"ATM"}, {}, "active", T0 - 2 * dayMs, 3, 4, 0)

ScorePool == {AdPool["A"], AdPool["F"], TwinAd("G"), TwinAd("H")}

\* every order of every subset of up to n ads
InjectiveSeqs(S, n) ==
    {q \in SeqsUpTo(S, n) : \A i, j \in 1 .. Len(q) : i # j => q[i] # q[j]}

applyGetSegment(balance) ==
    /\ fin.fn = "none"
    /\ fin' = [fn |-> "getSegment", balance |-> balance]
    /\ fout' = [fn |-> "getSegment", result |-> getSegment(balance)]
    /\ UNCHANGED <<now, nticks, redisAvailable, kvUp, rlVars, adVars>>

applyGetCurrentTimeSlot ==
    /\ fin.fn = "none"
    /\ fin' = [fn |-> "getCurrentTimeSlot", hour |-> getHours(now)]
    /\ fout' = [fn |-> "getCurrentTimeSlot", result |-> getCurrentTimeSlot(now),
                default |-> SlotHits(now) = {}]
    /\ UNCHANGED <<now, nticks, redisAvailable, kvUp, rlVars, adVars>>

applyFilterByTimeSlot(ads) ==
    /\ fin.fn = "none"
    /\ fin' = [fn |-> "filterByTimeSlot", ads |-> ads, hour |-> getHours(now)]
    /\ fout' = [fn |-> "filterByTimeSlot", result |-> filterByTimeSlot(ads, now)]
    /\ UNCHANGED <<now, nticks, redisAvailable, kvUp, rlVars, adVars>>

\* step 6 of serveAds on a list of candidates
applyScoreAds(ads) ==
    /\ fin.fn = "none"
    /\ fin' = [fn |-> "scoreAds", ads |-> ads]
    /\ fout' = [fn |-> "scoreAds", scored |-> scoreAds(ads, now),
                winner |-> Winner(scoreAds(ads, now)).ad.id]
    /\ UNCHANGED <<now, nticks, redisAvailable, kvUp, rlVars, adVars>>

\* the weights a configuration file can hold: the repository's, and edits of
\* it whose sum is 1.1 and 0.9
WeightConfigs ==
    {scoreWeights,
     [scoreWeights EXCEPT !.freshness = 30],
     [scoreWeights EXCEPT !.priority = 25]}

\* the process starts with the configuration w (the module is loaded, nothing
\* reads the weights until a request is scored) and serves a request: step 6
\* on a list of candidates
startAndScore(w, ads) ==
    /\ fin.fn = "none"
    /\ fin' = [fn |-> "startAndScore", weights |-> w, ads |-> ads]
    /\ fout' = [fn |-> "startAndScore", started |-> TRUE,
                scored |-> [i \in 1 .. Len(ads) |->
                              [ad |-> ads[i], score |-> ScoreUnder(w, ads[i], ads, now)]]]
    /\ UNCHANGED <<now, nticks, redisAvailable, kvUp, rlVars, adVars>>

InitTarget ==
    /\ now \in TargetClocks
    /\ nticks = 0
    /\ redisAvailable = FALSE
    /\ kvUp = TRUE
    /\ IdleRL
    /\ IdleFn
    /\ IdleAds

NextTarget ==
    \/ \E balance \in TargetBalances : applyGetSegment(balance)
    \/ applyGetCurrentTimeSlot
    \/ \E ads \in SeqsUpTo(SlotPool, MaxSlotAds) : applyFilterByTimeSlot(ads)
    \/ \E ads \in InjectiveSeqs(ScorePool, MaxCandidates) \ {<<>>} : applyScoreAds(ads)

SpecTarget == InitTarget /\ [][NextTarget]_vars

NextConfig ==
    \E w \in WeightConfigs, ads \in InjectiveSeqs(ScorePool, MaxCandidates) \ {<<>>} :
        startAndScore(w, ads)

SpecConfig == InitTarget /\ [][NextConfig]_vars

-----------------------------------------------------------------------------
(* serveAds *)

MAX_CUSTOMER_ID_LEN == 64

\* !customerId
Falsy(v) ==
    \/ v.t = "undefined"
    \/ (v.t = "string" /\ v.s = <<>>)
    \/ (v.t = "number" /\ v.n = 0)

\* customerId.trim() === ""
IsBlank(s) == \A i \in 1 .. Len(s) : s[i] \in {" ", "\t", "\n"}

\* a validation that lets a negative balance through
ValidateAnySign(customerId, balance) ==
    IF Falsy(customerId) \/ (customerId.t = "string" /\ IsBlank(customerId.s))
    THEN "customerId is required"
    ELSE IF customerId.t # "string" \/ Len(customerId.s) > MAX_CUSTOMER_ID_LEN
    THEN "customerId must be a string of max 64 characters"
    ELSE IF balance.t # "number"
    THEN "balance must be a non-negative number"
    ELSE "ok"

\* the three validation steps; "ok" when the request passes them
Validate(customerId, balance) ==
    IF Falsy(customerId) \/ (customerId.t = "string" /\ IsBlank(customerId.s))
    THEN "customerId is required"
    ELSE IF customerId.t # "string" \/ Len(customerId.s) > MAX_CUSTOMER_ID_LEN
    THEN "customerId must be a string of max 64 characters"
    ELSE IF balance.t # "number" \/ balance.n < 0
    THEN "balance must be a non-negative number"
    ELSE "ok"

\* the documents Ads.find matches
CatalogFind(ads, segment, channel, t) ==
    {a \in ads : /\ segment \in a.segments
                 /\ channel \in a.channels
                 /\ a.status = "active"
                 /\ a.startDate <= t
                 /\ a.endDate >= t}

\* the ids of the ads in the collection
CatalogIds == {a.id : a \in catalog}

\* .sort({ priority: -1 }): every order of the matches with the priority never
\* rising; the database fixes no order among equal priorities
RECURSIVE Orderings(_)
Orderings(S) ==
    IF S = {} THEN {<<>>}
    ELSE LET top == {a \in S : \A b \in S : b.priority <= a.priority}
         IN  UNION {{<<a>> \o rest : rest \in Orderings(S \ {a})} : a \in top}

\* getUserProfile: the stored profile, or a fresh one when the KV has none or
\* does not answer
getUserProfile(customerId) ==
    LET key == getUserProfileKey(customerId)
    IN  IF kvUp /\ profiles[key].has THEN profiles[key].val
        ELSE FreshProfile(customerId, now)

\* steps 3 to 6 with the fallback dropped: no candidate left is a 404
ServeDecideNoFallback(eligibleAds, profile, t) ==
    IF eligibleAds = <<>>
    THEN [status |-> 404, winner |-> "", candidates |-> 0, leastShown |-> FALSE]
    ELSE LET bySlot == filterByTimeSlot(eligibleAds, t).eligible
             byCap == filterByFrequencyCap(bySlot, profile, t).eligible
         IN  IF byCap = <<>>
             THEN [status |-> 404, winner |-> "", candidates |-> 0, leastShown |-> FALSE]
             ELSE [status |-> 200, winner |-> Winner(scoreAds(byCap, t)).ad.id,
                   candidates |-> Len(byCap), leastShown |-> FALSE]

\* steps 3 to 6 with the fallback dropped after the time-slot filter only
ServeDecideSlotOnly(eligibleAds, profile, t) ==
    IF eligibleAds = <<>> \/ filterByTimeSlot(eligibleAds, t).eligible = <<>>
    THEN [status |-> 404, winner |-> "", candidates |-> 0, leastShown |-> FALSE]
    ELSE LET bySlot == filterByTimeSlot(eligibleAds, t).eligible
             byCap == filterByFrequencyCap(bySlot, profile, t).eligible
             candidates == IF byCap = <<>> THEN leastShown(eligibleAds) ELSE byCap
         IN  [status |-> 200, winner |-> Winner(scoreAds(candidates, t)).ad.id,
              candidates |-> Len(candidates), leastShown |-> byCap = <<>>]

\* steps 3 to 6 without the frequency cap
ServeDecideNoCap(eligibleAds, profile, t) ==
    IF eligibleAds = <<>>
    THEN [status |-> 404, winner |-> "", candidates |-> 0, leastShown |-> FALSE]
    ELSE LET bySlot == filterByTimeSlot(eligibleAds, t).eligible
             candidates == IF bySlot = <<>> THEN leastShown(eligibleAds) ELSE bySlot
         IN  [status |-> 200, winner |-> Winner(scoreAds(candidates, t)).ad.id,
              candidates |-> Len(candidates), leastShown |-> bySlot = <<>>]

\* steps 3 to 6 of serveAds on the catalog query's result: the two filters,
\* the least-shown fallback, the score and the winner
ServeDecide(eligibleAds, profile, t) ==
    IF eligibleAds = <<>>
    THEN [status |-> 404, winner |-> "", candidates |-> 0, leastShown |-> FALSE]
    ELSE LET bySlot == filterByTimeSlot(eligibleAds, t).eligible
             byCap == filterByFrequencyCap(bySlot, profile, t).eligible
             candidates == IF byCap = <<>> THEN leastShown(eligibleAds) ELSE byCap
         IN  [status |-> 200, winner |-> Winner(scoreAds(candidates, t)).ad.id,
              candidates |-> Len(candidates), leastShown |-> byCap = <<>>]

\* a TTL that takes no account of the number of candidates
CacheTtlFlat(candidates) == highAvailabilityTtl

\* step 8's TTL, seconds
CacheTtl(candidates) ==
    IF candidates <= adThresholdForLowAvailability
    THEN highAvailabilityTtl ELSE lowAvailabilityTtl

\* a body that withholds the ad when the KV does not take the writes
AdResponseIfStored(adId, segment, channel, fallback) ==
    [adId |-> IF kvUp THEN adId ELSE "", segment |-> segment, channel |-> channel,
     fallback |-> fallback]

\* the 200 body; fallback is true only on the outer catch's path
AdResponse(adId, segment, channel, fallback) ==
    [adId |-> adId, segment |-> segment, channel |-> channel, fallback |-> fallback]

\* a findOne that sorts by rising priority
findOneLowest(found) == found[Len(found)]

\* Ads.findOne({...}).sort({ priority: -1 }) on a non-empty result: the first
\* document in descending priority
findOne(found) == found[1]

\* a serve that never finds its cache key
CacheHitNever(key) == FALSE

\* step 1: the lookup runs when the flag is set; a rejected GET and an absent
\* key both count as a miss
CacheHit(key) == redisAvailable /\ kvUp /\ cache[key].has

\* a lookup that is sent whatever the flag says
CacheLookupsAlways == IF redisAvailable THEN 1 ELSE 1

\* how many cache lookups a serve that reaches step 1 sends: redis.get is
\* called inside if (isRedisAvailable())
CacheLookups == IF redisAvailable THEN 1 ELSE 0

\* the head of every route through the handler that passes validation and
\* finds no cached answer
MissPrefix == <<"received", "validated", "cache_miss", "profile_loaded">>

\* a handler that writes the cache before it has scored the candidates
ServePathWriteFirst(status, hit, catalogQueries, started, cacheWrites) ==
    IF status = 400 THEN <<"received", "error">>
    ELSE IF hit THEN <<"received", "validated", "cache_hit", "responded">>
    ELSE IF catalogQueries = 2
    THEN MissPrefix \o << IF status = 200 THEN "fallback_path" ELSE "error" >>
    ELSE IF status = 404 THEN MissPrefix \o <<"candidates_fetched", "responded">>
    ELSE MissPrefix \o <<"candidates_fetched", "filtered">>
         \o (IF cacheWrites = 1 THEN <<"cache_write">> ELSE <<>>)
         \o <<"scored">>
         \o (IF started = 1 THEN <<"impression_recording">> ELSE <<>>)
         \o <<"responded">>

\* the stages the handler passes and the background work it starts, in the
\* order of the code: the validation's returns, the cache hit's return, the
\* catch block (entered from the catalog query), the return on no match, and
\* steps 4 to 8 with the final return
ServePath(status, hit, catalogQueries, started, cacheWrites) ==
    IF status = 400 THEN <<"received", "error">>
    ELSE IF hit THEN <<"received", "validated", "cache_hit", "responded">>
    ELSE IF catalogQueries = 2
    THEN MissPrefix \o << IF status = 200 THEN "fallback_path" ELSE "error" >>
    ELSE IF status = 404 THEN MissPrefix \o <<"candidates_fetched", "responded">>
    ELSE MissPrefix \o <<"candidates_fetched", "filtered", "scored">>
         \o (IF started = 1 THEN <<"impression_recording">> ELSE <<>>)
         \o (IF cacheWrites = 1 THEN <<"cache_write">> ELSE <<>>)
         \o <<"responded">>

\* the answer of a serve request with what the handler did on the way; held is
\* the cache key's entry when the request arrived
Served(customerId, status, body, key, hit, cacheReads, catalogQueries, catalogAnswers, profileReads, started, cacheWrites, ttl, matched, decided) ==
    [status |-> status, body |-> body, key |-> key, t |-> now,
     customerId |-> IF status = 400 THEN Undefined ELSE customerId,
     flag |-> redisAvailable, kv |-> kvUp, hit |-> hit, cacheReads |-> cacheReads,
     held |-> IF key \in CacheKeys THEN cache[key] ELSE NoEntry,
     catalogQueries |-> catalogQueries, catalogAnswers |-> catalogAnswers,
     profileReads |-> profileReads,
     recordImpressions |-> started, cacheWrites |-> cacheWrites, ttl |-> ttl,
     matched |-> matched, candidates |-> decided.candidates,
     leastShown |-> decided.leastShown,
     path |-> ServePath(status, hit, catalogQueries, started, cacheWrites)]

Undecided == [status |-> 0, winner |-> "", candidates |-> 0, leastShown |-> FALSE]

\* recordImpression up to its first await: the profile read is sent when the
\* function is called; the write follows in a later step
RITask(customerId, adId) ==
    [customerId |-> customerId, adId |-> adId, got |-> getUserProfile(customerId)]

\* how the catalog answers one request: both queries, only the fallback's
\* findOne (the main query throws), or neither
DbOutcomes == {"ok", "fallback", "down"}

ServeError == [error |-> "Failed to serve ad"]

serveAds(customerId, balance, channelIn, db) ==
    /\ nserves < MaxServes
    /\ nserves' = nserves + 1
    /\ ri' = NoRecord /\ ca' = NoCreate
    /\ UNCHANGED <<now, nticks, redisAvailable, kvUp, rlVars, fnVars, catalog,
                   profiles, invTasks, ncreates, ntracks, tk, svTasks, invDone>>
    /\ IF Validate(customerId, balance) # "ok"
       THEN /\ sv' = Served(customerId, 400, [error |-> Validate(customerId, balance)], <<>>,
                            FALSE, 0, 0, 0, 0, 0, 0, 0, 0, Undecided)
            /\ UNCHANGED <<cache, riTasks>>
       ELSE
        LET safeCustomerId == sanitize(customerId.s)
            channel == IF channelIn = Undefined THEN "ATM" ELSE channelIn.s
            segment == getSegment(balance.n)
            cacheKey == CacheKey(segment, channel, safeCustomerId)
            lookups == CacheLookups
        IN
        IF CacheHit(cacheKey)
        THEN \* cache=HIT
             /\ sv' = Served(customerId, 200, cache[cacheKey].val, cacheKey, TRUE, 1,
                             0, 0, 0, 0, 0, 0, 0, Undecided)
             /\ UNCHANGED <<cache, riTasks>>
        ELSE
        IF db = "ok"
        THEN \E eligibleAds \in Orderings(CatalogFind(catalog, segment, channel, now)) :
               LET d == ServeDecide(eligibleAds, getUserProfile(safeCustomerId), now)
                   response == AdResponse(d.winner, segment, channel, FALSE)
                   ttl == CacheTtl(d.candidates)
               IN  IF d.status = 404
                   THEN /\ sv' = Served(customerId, 404, [message |-> "No ad available"], cacheKey,
                                        FALSE, lookups, 1, 1, 1, 0, 0, 0,
                                        Len(eligibleAds), d)
                        /\ UNCHANGED <<cache, riTasks>>
                   ELSE /\ riTasks' = Append(riTasks, RITask(safeCustomerId, d.winner))
                        /\ cache' = IF redisAvailable /\ kvUp
                                    THEN [cache EXCEPT ![cacheKey] =
                                             CacheEntry(response, now + ttl * 1000,
                                                        customerId.s, CatalogIds)]
                                    ELSE cache
                        /\ sv' = Served(customerId, 200, response, cacheKey, FALSE, lookups, 1, 1, 1, 1,
                                        IF redisAvailable THEN 1 ELSE 0,
                                        IF redisAvailable THEN ttl ELSE 0,
                                        Len(eligibleAds), d)
        ELSE IF db = "fallback"
        THEN \* the main query throws; the catch block's findOne answers
             \E found \in Orderings(CatalogFind(catalog, getSegment(balance.n),
                                                channel, now)) :
               /\ sv' = IF found = <<>>
                        THEN Served(customerId, 500, ServeError, cacheKey, FALSE, lookups, 2, 1, 1,
                                    0, 0, 0, 0, Undecided)
                        ELSE Served(customerId, 200, AdResponse(findOne(found).id, segment, channel,
                                                    TRUE),
                                    cacheKey, FALSE, lookups, 2, 1, 1, 0, 0, 0, 0, Undecided)
               /\ UNCHANGED <<cache, riTasks>>
        ELSE \* neither query answers
             /\ sv' = Served(customerId, 500, ServeError, cacheKey, FALSE, lookups, 2, 0, 1, 0, 0, 0, 0,
                             Undecided)
             /\ UNCHANGED <<cache, riTasks>>

-----------------------------------------------------------------------------
(* serveAds, one await at a time around the catalog query *)

RemoveAt(seq, i) == SubSeq(seq, 1, i - 1) \o SubSeq(seq, i + 1, Len(seq))

\* a serve request after steps 1 and 2, with the answer of Ads.find on its way
SvTask(customerId, segment, channel, cacheKey, lookups, profile, eligibleAds) ==
    [customerId |-> customerId, segment |-> segment, channel |-> channel,
     cacheKey |-> cacheKey, lookups |-> lookups, profile |-> profile,
     eligibleAds |-> eligibleAds, queried |-> CatalogIds]

\* serveAds up to await Ads.find(...): validation, step 1's lookup, step 2's
\* profile read, and the query, which the catalog answers from what it holds
serveQuery(customerId, balance, channelIn) ==
    /\ nserves' = nserves + 1
    /\ ri' = NoRecord /\ ca' = NoCreate
    /\ UNCHANGED <<now, nticks, redisAvailable, kvUp, rlVars, fnVars, catalog, cache,
                   profiles, riTasks, invTasks, ncreates, ntracks, tk, invDone>>
    /\ IF Validate(customerId, balance) # "ok"
       THEN /\ sv' = Served(customerId, 400, [error |-> Validate(customerId, balance)],
                            <<>>, FALSE, 0, 0, 0, 0, 0, 0, 0, 0, Undecided)
            /\ UNCHANGED svTasks
       ELSE
        LET safeCustomerId == sanitize(customerId.s)
            channel == IF channelIn = Undefined THEN "ATM" ELSE channelIn.s
            segment == getSegment(balance.n)
            cacheKey == CacheKey(segment, channel, safeCustomerId)
        IN
        IF CacheHit(cacheKey)
        THEN /\ sv' = Served(customerId, 200, cache[cacheKey].val, cacheKey, TRUE, 1,
                             0, 0, 0, 0, 0, 0, 0, Undecided)
             /\ UNCHANGED svTasks
        ELSE \E eligibleAds \in Orderings(CatalogFind(catalog, segment, channel, now)) :
               /\ svTasks' = Append(svTasks,
                                    SvTask(customerId, segment, channel, cacheKey,
                                           CacheLookups, getUserProfile(safeCustomerId),
                                           eligibleAds))
               /\ sv' = NoServe

\* serveAds from the query's answer to the response: steps 4 to 8
serveAnswer(i) ==
    /\ i \in 1 .. Len(svTasks)
    /\ LET task == svTasks[i]
           d == ServeDecide(task.eligibleAds, task.profile, now)
           response == AdResponse(d.winner, task.segment, task.channel, FALSE)
           ttl == CacheTtl(d.candidates)
       IN  IF d.status = 404
           THEN /\ sv' = Served(task.customerId, 404, [message |-> "No ad available"],
                                task.cacheKey, FALSE, task.lookups, 1, 1, 1, 0, 0, 0,
                                Len(task.eligibleAds), d)
                /\ UNCHANGED <<cache, riTasks>>
           ELSE /\ riTasks' = Append(riTasks,
                                     RITask(sanitize(task.customerId.s), d.winner))
                /\ cache' = IF redisAvailable /\ kvUp
                            THEN [cache EXCEPT ![task.cacheKey] =
                                     CacheEntry(response, now + ttl * 1000,
                                                task.customerId.s, task.queried)]
                            ELSE cache
                /\ sv' = Served(task.customerId, 200, response, task.cacheKey, FALSE,
                                task.lookups, 1, 1, 1, 1,
                                IF redisAvailable THEN 1 ELSE 0,
                                IF redisAvailable THEN ttl ELSE 0,
                                Len(task.eligibleAds), d)
    /\ svTasks' = RemoveAt(svTasks, i)
    /\ ri' = NoRecord /\ ca' = NoCreate
    /\ UNCHANGED <<now, nticks, redisAvailable, kvUp, rlVars, fnVars, catalog,
                   profiles, invTasks, nserves, ncreates, ntracks, tk, invDone>>

-----------------------------------------------------------------------------
(* recordImpression *)

\* a recordImpression that keeps every impression it read
UpdatedProfileNoPrune(got, adId, t) ==
    [got EXCEPT !.impressions = Append(got.impressions, Impression(adId, t)),
                !.lastUpdated = t]

\* push the new impression, prune what is a day old, stamp lastUpdated
UpdatedProfile(got, adId, t) ==
    [got EXCEPT
        !.impressions = SelectSeq(Append(got.impressions, Impression(adId, t)),
                                  LAMBDA imp : imp.timestamp > t - 86400 * 1000),
        !.lastUpdated = t]

\* a write that reads the profile again and appends to what is stored now
ProfileToWriteMerged(task, t) ==
    UpdatedProfile(getUserProfile(task.customerId), task.adId, t)

\* the profile recordImpression writes: the one its own read returned, updated
ProfileToWrite(task, t) == UpdatedProfile(task.got, task.adId, t)

\* the impressions younger than a day that the KV holds at key and that the
\* profile written over them leaves out
LostEntries(key, profile, t) ==
    IF kvUp /\ profiles[key].has
    THEN {e \in Range(profiles[key].val.impressions) :
             e.timestamp > t - 86400 * 1000} \ Range(profile.impressions)
    ELSE {}

\* the rest of recordImpression once the read has answered: Date.now(), the
\* update, and the set + expire pipeline, whose failure is swallowed
recordImpression(i) ==
    /\ i \in 1 .. Len(riTasks)
    /\ LET task == riTasks[i]
           key == getUserProfileKey(task.customerId)
           profile == ProfileToWrite(task, now)
       IN  /\ profiles' = IF kvUp
                          THEN [profiles EXCEPT ![key] =
                                   Entry(profile, now + userProfileTtl * 1000)]
                          ELSE profiles
           /\ ri' = [done |-> TRUE, key |-> key, customerId |-> task.customerId,
                     adId |-> task.adId, t |-> now,
                     persisted |-> kvUp, before |-> task.got, stored |-> profile,
                     lost |-> LostEntries(key, profile, now)]
    /\ riTasks' = RemoveAt(riTasks, i)
    /\ sv' = NoServe /\ ca' = NoCreate
    /\ UNCHANGED <<now, nticks, redisAvailable, kvUp, rlVars, fnVars, catalog, cache,
                   invTasks, nserves, ncreates, ntracks, tk, svTasks, invDone>>

-----------------------------------------------------------------------------
(* trackImpression *)

\* Ads.updateOne({ _id: adId }, { $inc: { impressions: 1 } })
IncImpressions(ads, adId) ==
    {IF a.id = adId THEN [a EXCEPT !.impressions = a.impressions + 1] ELSE a : a \in ads}

\* if (customerId): undefined and the empty string start no recordImpression
Truthy(v) == v # Undefined /\ ~(v.t = "string" /\ v.s = <<>>)

\* the customer id trackImpression hands to recordImpression: the body's
\* customerId as it came
TrackedCustomer(customerId) == customerId.s

\* how the catalog answers the update
TrackOutcomes == {"ok", "down"}

trackImpression(adId, customerId, db) ==
    /\ ntracks < MaxTracks
    /\ ntracks' = ntracks + 1
    /\ IF adId = Undefined
       THEN /\ tk' = [status |-> 400, error |-> "adId required"]
            /\ UNCHANGED <<catalog, riTasks>>
       ELSE IF db = "down"
       THEN /\ tk' = [status |-> 500, error |-> "Failed to track impression"]
            /\ UNCHANGED <<catalog, riTasks>>
       ELSE /\ catalog' = IncImpressions(catalog, adId.s)
            /\ riTasks' = IF Truthy(customerId)
                           THEN Append(riTasks, RITask(TrackedCustomer(customerId), adId.s))
                           ELSE riTasks
            /\ tk' = [status |-> 200, message |-> "Impression recorded",
                      adId |-> adId.s, customerId |-> customerId,
                      recordImpressions |-> IF Truthy(customerId) THEN 1 ELSE 0]
    /\ sv' = NoServe /\ ri' = NoRecord /\ ca' = NoCreate
    /\ UNCHANGED <<now, nticks, redisAvailable, kvUp, rlVars, fnVars, cache, profiles,
                   invTasks, nserves, ncreates, svTasks, invDone>>

-----------------------------------------------------------------------------
(* createAd and invalidateCacheForAd *)

\* the request body of a createAd for one of the pool's ads: segments as an
\* array or as a single string, channels as an array or left out
CreateBody(id, segmentsForm, channelsForm) ==
    [adId |-> id,
     segments |-> IF segmentsForm = "string"
                  THEN [t |-> "string", s |-> CHOOSE x \in AdPool[id].segments : TRUE]
                  ELSE [t |-> "array", a |-> AdPool[id].segments],
     channels |-> IF channelsForm = "absent" THEN Undefined
                  ELSE [t |-> "array", a |-> AdPool[id].channels]]

\* Array.isArray(body.segments) ? body.segments : [body.segments]
InvalidatedSegments(body) ==
    IF body.segments.t = "array" THEN body.segments.a ELSE {body.segments.s}

\* an invalidation without the ATM default
InvalidatedChannelsNoDefault(body) ==
    IF body.channels.t = "array" THEN body.channels.a ELSE {}

\* Array.isArray(body.channels) ? body.channels : ["ATM"]
InvalidatedChannels(body) ==
    IF body.channels.t = "array" THEN body.channels.a ELSE {"ATM"}

\* invalidateCacheForAd before its first scan; found remembers, for each
\* pattern scanned, the cache keys of that segment and channel the KV held
InvTask(body) ==
    [body |-> body,
     todo |-> InvalidatedSegments(body) \X InvalidatedChannels(body),
     keys |-> {},
     found |-> {}]

\* SCAN MATCH `ad:${seg}:${ch}:*`
Matches(pattern, key) ==
    key[1] = "ad" /\ key[2] = pattern[1] /\ key[3] = pattern[2]

LiveCacheKeys == {k \in CacheKeys : cache[k].has}

CreateOutcomes == {"ok", "missing", "dbfail"}

createAd(id, segmentsForm, channelsForm, outcome) ==
    /\ ncreates < MaxCreates
    /\ AdPool[id] \notin catalog
    /\ segmentsForm = "string" => Cardinality(AdPool[id].segments) = 1
    /\ channelsForm = "absent" => AdPool[id].channels = {"ATM"}
    /\ outcome # "ok" => segmentsForm = "array" /\ channelsForm = "array"
    /\ ncreates' = ncreates + 1
    /\ IF outcome = "missing"
       THEN /\ ca' = [NoCreate EXCEPT !.status = 400]
            /\ UNCHANGED <<catalog, invTasks>>
       ELSE IF outcome = "dbfail"
       THEN /\ ca' = [NoCreate EXCEPT !.status = 500]
            /\ UNCHANGED <<catalog, invTasks>>
       ELSE /\ catalog' = catalog \cup {AdPool[id]}
            /\ invTasks' = IF redisAvailable
                           THEN Append(invTasks,
                                       InvTask(CreateBody(id, segmentsForm, channelsForm)))
                           ELSE invTasks
            /\ ca' = [NoCreate EXCEPT !.status = 200, !.created = TRUE,
                                     !.started = redisAvailable]
    /\ sv' = NoServe /\ ri' = NoRecord
    /\ UNCHANGED <<now, nticks, redisAvailable, kvUp, rlVars, fnVars, cache, profiles,
                   riTasks, nserves, ntracks, tk, svTasks, invDone>>

\* one pattern's SCAN loop; a rejected SCAN ends the invalidation
invalidateScan(i) ==
    /\ i \in 1 .. Len(invTasks)
    /\ invTasks[i].todo # {}
    /\ \E pattern \in invTasks[i].todo :
         LET task == invTasks[i]
             matchedKeys == {k \in LiveCacheKeys : Matches(pattern, k)}
             held == {k \in LiveCacheKeys : k[2] = pattern[1] /\ k[3] = pattern[2]}
         IN  IF kvUp
             THEN /\ invTasks' = [invTasks EXCEPT ![i] =
                                    [task EXCEPT !.todo = task.todo \ {pattern},
                                                 !.keys = task.keys \cup matchedKeys,
                                                 !.found = task.found \cup
                                                     {<<pattern[1], pattern[2], held>>}]]
                  /\ ca' = NoCreate
             ELSE /\ invTasks' = RemoveAt(invTasks, i)
                  /\ ca' = [NoCreate EXCEPT !.inv = [done |-> TRUE, ok |-> FALSE,
                                               body |-> task.body, found |-> task.found,
                                               after |-> LiveCacheKeys]]
    /\ sv' = NoServe /\ ri' = NoRecord
    /\ UNCHANGED <<now, nticks, redisAvailable, kvUp, rlVars, fnVars, catalog, cache,
                   profiles, riTasks, nserves, ncreates, ntracks, tk, svTasks, invDone>>

\* after the last scan: DEL of the collected keys, if there are any
invalidateDel(i) ==
    /\ i \in 1 .. Len(invTasks)
    /\ invTasks[i].todo = {}
    /\ LET task == invTasks[i]
           deleted == task.keys = {} \/ kvUp
       IN  /\ cache' = IF kvUp
                       THEN [k \in CacheKeys |->
                                IF k \in task.keys THEN NoEntry ELSE cache[k]]
                       ELSE cache
           /\ ca' = [NoCreate EXCEPT !.inv = [done |-> TRUE, ok |-> deleted,
                                        body |-> task.body, found |-> task.found,
                                        after |-> {k \in CacheKeys : cache'[k].has}]]
           /\ invDone' = IF deleted THEN invDone \cup {task.body} ELSE invDone
    /\ invTasks' = RemoveAt(invTasks, i)
    /\ sv' = NoServe /\ ri' = NoRecord
    /\ UNCHANGED <<now, nticks, redisAvailable, kvUp, rlVars, fnVars, catalog,
                   profiles, riTasks, nserves, ncreates, ntracks, tk, svTasks>>

-----------------------------------------------------------------------------
(* The serving system: requests, background tasks, the clock, the connection *)

InvalidCustomers ==
    {Undefined, Str(<<>>), Str(<<" ">>), Num(7),
     Str([i \in 1 .. (MAX_CUSTOMER_ID_LEN + 1) |-> "x"])}

ValidBalances == {Num(0), Num(50000), Num(1000000)}
InvalidBalances == {Num(-1), Str(<<"9">>), Undefined}

\* channel left out, or given
ChannelInputs == {Undefined, Str("mobile")}

ServeInput(customerId, balance, channel, db) ==
    [customerId |-> customerId, balance |-> balance, channel |-> channel, db |-> db]

\* the requests that pass validation, with every answer of the catalog
ValidServeInputs ==
    {ServeInput(c, b, ch, db) :
        c \in ValidCustomers, b \in ValidBalances, ch \in ChannelInputs, db \in DbOutcomes}

\* the requests that fail one validation step, or the first of two
InvalidServeInputs ==
    {ServeInput(c, b, Undefined, "ok") : c \in InvalidCustomers, b \in {Num(0), Num(-1)}}
    \cup {ServeInput(c, b, Undefined, "ok") : c \in ValidCustomers, b \in InvalidBalances}

\* a profile left by earlier serves: the last write was three hours ago
OldProfile ==
    [customerId |-> <<"c", "_", "1">>,
     impressions |-> << Impression("A", T0 - 25 * hourMs),
                        Impression("A", T0 - 24 * hourMs),
                        Impression("A", T0 - 3 * hourMs) >>,
     lastUpdated |-> T0 - 3 * hourMs]

InitProfiles ==
    {[k \in ProfileKeys |->
        IF k = getUserProfileKey(<<"c", "_", "1">>)
        THEN Entry(OldProfile, T0 - 3 * hourMs + userProfileTtl * 1000)
        ELSE NoEntry]}

InitCatalogs ==
    {{AdPool[id] : id \in ids} : ids \in {{}, {"A", "D"}, {"A", "B", "C", "E", "F"}}}

ServeDeltas == {30 * 1000, 2 * hourMs}

\* the process has just started: the flag is not set yet, the cache is empty,
\* nothing is in progress
InitServing(catalogs, stores) ==
    /\ now = T0
    /\ nticks = 0
    /\ redisAvailable = FALSE
    /\ kvUp = TRUE
    /\ IdleRL
    /\ IdleFn
    /\ catalog \in catalogs
    /\ cache = [k \in CacheKeys |-> NoEntry]
    /\ profiles \in stores
    /\ riTasks = <<>>
    /\ invTasks = <<>>
    /\ nserves = 0
    /\ ncreates = 0
    /\ ntracks = 0
    /\ tk = NoTrack
    /\ svTasks = <<>>
    /\ invDone = {}
    /\ sv = NoServe
    /\ ri = NoRecord
    /\ ca = NoCreate

InitServe == InitServing(InitCatalogs, InitProfiles)

NextServe ==
    \/ \E in \in ValidServeInputs \cup InvalidServeInputs :
          serveAds(in.customerId, in.balance, in.channel, in.db)
    \/ \E i \in 1 .. Len(riTasks) : recordImpression(i)
    \/ \E d \in ServeDeltas : nticks < MaxServeTicks /\ Tick(d)
    \/ RedisUp
    \/ RedisClose
    \/ KvToggle

SpecServe == InitServe /\ [][NextServe]_vars

\* rejected requests among served ones: every invalid request and the valid
\* ones the catalog answers, on a catalog of ads A and B
NextValidate ==
    \/ \E in \in InvalidServeInputs \cup {x \in ValidServeInputs : x.db = "ok"} :
          serveAds(in.customerId, in.balance, in.channel, in.db)
    \/ \E i \in 1 .. Len(riTasks) : recordImpression(i)
    \/ RedisUp
    \/ KvToggle

SpecValidate == InitServing({{AdPool["A"], AdPool["B"]}}, InitProfiles) /\ [][NextValidate]_vars

\* the connection's events one by one, beside the handlers that read the flag
NextRedis ==
    \/ RedisConnect
    \/ RedisReady
    \/ RedisError
    \/ RedisClose
    \/ \E in \in {x \in ValidServeInputs : x.db = "ok" /\ x.balance # Num(1000000)} :
          nserves < MaxFlagReads /\ serveAds(in.customerId, in.balance, in.channel, in.db)
    \/ \E i \in 1 .. Len(riTasks) : recordImpression(i)
    \/ \E apiKey \in ApiKeys, pipe1, pipe2 \in PipeOutcomes :
         \E sfx1 \in CanDraw(buckets[IpKey("ip1")], now),
            sfx2 \in CanDraw(buckets[ApiKeyKey("key1")], now) :
            ncalls < MaxFlagReads
              /\ rateLimiterLayered("ip1", apiKey, "undefined", pipe1, sfx1, pipe2, sfx2)

SpecRedis == InitServing({{AdPool["A"], AdPool["B"]}}, InitProfiles) /\ [][NextRedis]_vars

\* POST /ads/serve: the rate limiter, then serveAds, while the KV comes and goes
NextKvDown ==
    \/ \E ip \in PlainIps, pipe \in PipeOutcomes :
         \E sfx \in CanDraw(buckets[PlainKey(ip)], now) :
            ncalls < MaxServes /\ rateLimiter(ip, pipe, sfx)
    \/ \E in \in {x \in ValidServeInputs : x.db = "ok" /\ x.balance # Num(1000000)} :
          serveAds(in.customerId, in.balance, in.channel, in.db)
    \/ \E i \in 1 .. Len(riTasks) : recordImpression(i)
    \/ RedisUp
    \/ RedisClose
    \/ KvToggle

SpecKvDown == InitServing({{AdPool["A"], AdPool["B"]}}, InitProfiles) /\ [][NextKvDown]_vars

\* serves and tracked impressions of two customers whose ids differ in one
\* character, on a catalog of ads A and B with the KV empty
TrackAdIds == {Undefined, Str("A")}

NextTwin ==
    \/ \E c \in TwinCustomers, ch \in ChannelInputs :
          nserves < MaxTwinServes /\ serveAds(c, Num(0), ch, "ok")
    \/ \E adId \in TrackAdIds, c \in TwinCustomers \cup {Undefined}, db \in TrackOutcomes :
          trackImpression(adId, c, db)
    \/ \E i \in 1 .. Len(riTasks) : recordImpression(i)
    \/ RedisUp

SpecTwin ==
    InitServing({{AdPool["A"], AdPool["B"]}}, {[k \in ProfileKeys |-> NoEntry]})
        /\ [][NextTwin]_vars

\* serves that wait for the catalog's answer while an ad is created and the
\* cache invalidated: the catalog starts with ads A and B, the KV empty
NextRace ==
    \/ \E c \in ValidCustomers, ch \in ChannelInputs :
          nserves < MaxRaceServes /\ serveQuery(c, Num(0), ch)
    \/ \E i \in 1 .. Len(svTasks) : serveAnswer(i)
    \/ \E i \in 1 .. Len(riTasks) : recordImpression(i)
    \/ \E id \in AdIds, segmentsForm \in {"array", "string"},
          channelsForm \in {"array", "absent"} :
          createAd(id, segmentsForm, channelsForm, "ok")
    \/ \E i \in 1 .. Len(invTasks) : invalidateScan(i)
    \/ \E i \in 1 .. Len(invTasks) : invalidateDel(i)
    \/ RedisUp

SpecRace ==
    InitServing({{AdPool["A"], AdPool["B"]}}, {[k \in ProfileKeys |-> NoEntry]})
        /\ [][NextRace]_vars

\* createAd and its invalidation beside serves that fill the cache: the catalog
\* starts with ads A and B, the KV empty
InitCreate ==
    InitServing({{AdPool["A"], AdPool["B"]}}, {[k \in ProfileKeys |-> NoEntry]})

NextCreate ==
    \/ \E in \in {x \in ValidServeInputs : x.db = "ok" /\ x.balance # Num(1000000)} :
          nserves < MaxCreateServes /\ serveAds(in.customerId, in.balance, in.channel, in.db)
    \/ \E id \in AdIds, segmentsForm \in {"array", "string"},
          channelsForm \in {"array", "absent"}, outcome \in CreateOutcomes :
          createAd(id, segmentsForm, channelsForm, outcome)
    \/ \E i \in 1 .. Len(invTasks) : invalidateScan(i)
    \/ \E i \in 1 .. Len(invTasks) : invalidateDel(i)
    \/ RedisUp
    \/ KvToggle

SpecCreate == InitCreate /\ [][NextCreate]_vars

-----------------------------------------------------------------------------
(* Claims about the rate limiter *)

\* the bucket of the last request's i-th check, as a read at the time of the
\* check finds it
BucketAt(i) ==
    IF rl.t > bucketExp[rl.checks[i].key] THEN {} ELSE buckets[rl.checks[i].key]

\* C3: from an empty bucket with the KV answering, the k-th request of one
\* window is admitted and leaves k members for every k <= maxRequests, and the
\* (maxRequests+1)-th request of the window is answered 429.
C3_KthRequestOfWindow ==
    \A i \in 1 .. Len(rl.checks) :
        LET c == rl.checks[i]
        IN  (c.clean /\ rl.t - c.first < c.ws * 1000) =>
                /\ (c.k <= c.max => ~c.exceeded /\ c.count = c.k)
                /\ (c.k = c.max + 1 => rl.resp.status = 429)

\* C4 as stated: after every check that admits a request at time now, every
\* member of the bucket has a score > now - windowSeconds * 1000.
C4_AdmittedLeavesOnlyWindow ==
    \A i \in 1 .. Len(rl.checks) :
        ~rl.checks[i].exceeded =>
            \A m \in BucketAt(i) : m[1] > rl.t - rl.checks[i].ws * 1000

\* C4 amended: after every check whose pipeline executed at time now (it
\* admits or denies), every member of the bucket has a score
\* > now - windowSeconds * 1000.
C4_ExecutedLeavesOnlyWindow ==
    \A i \in 1 .. Len(rl.checks) :
        rl.checks[i].pipe = "ok" =>
            \A m \in BucketAt(i) : m[1] > rl.t - rl.checks[i].ws * 1000

\* a check admitted a request a full window after the first one on its key,
\* on a bucket that held members, and left only its own member
C4_Witness ==
    /\ Len(rl.checks) = 1
    /\ rl.checks[1].pipe = "ok"
    /\ ~rl.checks[1].exceeded
    /\ rl.checks[1].before = maxRequests
    /\ rl.checks[1].count = 1
    /\ rl.t - rl.checks[1].first >= windowSeconds * 1000

\* C5: with the availability flag false, or the pipeline throwing, or ZCARD
\* answered with an error, the request is never answered 429 and next() is
\* called exactly once.
C5_FailOpen ==
    (rl.impl # "none" /\
        (~rl.flag \/ \E i \in 1 .. Len(rl.checks) : rl.checks[i].pipe # "ok")) =>
            rl.resp.status # 429 /\ rl.resp.nextCalls = 1

\* C6: when the cardinality a layer's check reads exceeds that layer's
\* maxRequests, the answer is 429 with Retry-After = the layer's windowSeconds,
\* X-RateLimit-Limit = the layer's maxRequests, X-RateLimit-Remaining = 0, and
\* next() is not called.
C6_DenialOfLayer ==
    \A i \in 1 .. Len(rl.checks) :
        LET c == rl.checks[i]
        IN  (c.pipe = "ok" /\ c.count > c.max) =>
                rl.resp = [status |-> 429, retryAfter |-> c.ws, limit |-> c.max,
                           remaining |-> 0, nextCalls |-> 0]

\* the per-API-key layer denied a request that the per-IP layer admitted
C6_Witness ==
    /\ Len(rl.checks) = 2
    /\ ~rl.checks[1].exceeded
    /\ rl.checks[2].count > standardMax
    /\ rl.resp.status = 429

\* what a check leaves its layer: max - current
RemainingOf(c) == c.max - c.count

\* C20: an admitted request's X-RateLimit-Limit and X-RateLimit-Remaining are
\* those of the tightest applicable layer, the one with the fewest remaining
\* requests among the per-IP layer and, with an API key, the per-API-key
\* layer, and Remaining is never negative.
C20_TightestLayerHeaders ==
    (/\ rl.impl = "layered"
     /\ rl.resp.status = 200
     /\ Len(rl.checks) >= 1
     /\ \A i \in 1 .. Len(rl.checks) : rl.checks[i].pipe = "ok")
        => /\ rl.resp.remaining >= 0
           /\ \E i \in 1 .. Len(rl.checks) :
                 /\ rl.resp.limit = rl.checks[i].max
                 /\ rl.resp.remaining = RemainingOf(rl.checks[i])
                 /\ \A j \in 1 .. Len(rl.checks) :
                       RemainingOf(rl.checks[i]) <= RemainingOf(rl.checks[j])

\* the limit the claim gives a caller whose bank has the tier bankTier
ClaimedTierMax(bankTier) ==
    CASE bankTier = "premium" -> premiumMax
      [] bankTier = "enterprise" -> enterpriseMax
      [] OTHER -> standardMax

ApiKeyBuckets == <<[k \in ApiKeys \ {"none"} |-> buckets[ApiKeyKey(k)]],
                   [k \in ApiKeys \ {"none"} |-> bucketExp[ApiKeyKey(k)]]>>

\* C23: a request the layered limiter checks (flag true) is checked per IP
\* first; when that check denies it the answer is 429 and no per-API-key
\* bucket changes; the per-API-key check runs exactly for the requests with an
\* API key that the per-IP check let through, on that key's bucket, with the
\* limit of the caller's tier per 60 s (standard's without a tier).
C23_LayersInOrder ==
    [][(ncalls' = ncalls + 1 /\ rl'.impl = "layered" /\ rl'.flag) =>
          LET req == rl'.req
              checks == rl'.checks
          IN  /\ Len(checks) >= 1
              /\ checks[1].key = IpKey(req.ip)
              /\ checks[1].max = maxRequests
              /\ (checks[1].exceeded =>
                     /\ Len(checks) = 1
                     /\ rl'.resp.status = 429
                     /\ ApiKeyBuckets' = ApiKeyBuckets)
              /\ (Len(checks) = 2 <=>
                     (req.apiKey # "none" /\ checks[1].pipe # "throw"
                        /\ ~checks[1].exceeded))
              /\ (Len(checks) = 2 =>
                     /\ checks[2].key = ApiKeyKey(req.apiKey)
                     /\ checks[2].max = ClaimedTierMax(req.bankTier)
                     /\ checks[2].ws = 60)]_vars

\* the per-IP layer denied a request that carries an API key whose bucket
\* holds members
C23_DeniedByIp ==
    /\ rl.impl = "layered"
    /\ Len(rl.checks) = 1
    /\ rl.checks[1].exceeded
    /\ buckets[ApiKeyKey("key1")] # {}

\* the finished checks that admitted their request
AdmittedChecks == {i \in 1 .. Len(rlTasks) : rlTasks[i].admitted}

\* C24: whatever the interleaving of the commands of concurrent checks on a
\* bucket, among the requests whose timestamps lie in an interval of
\* windowSeconds (here: the one that ends at an admitted request's timestamp)
\* at most maxRequests are admitted.
C24_AtMostMaxAdmittedPerWindow ==
    \A i \in AdmittedChecks :
        Cardinality({j \in AdmittedChecks :
                        /\ rlTasks[j].key = rlTasks[i].key
                        /\ rlTasks[j].t > rlTasks[i].t - windowSeconds * 1000
                        /\ rlTasks[j].t <= rlTasks[i].t}) <= maxRequests

\* C29: every rate-limit check executed on a bucket with the KV answering
\* adds exactly one new member to the bucket, admitted or denied, also when
\* another check used the same millisecond; so the cardinality read is one
\* more than the number of members the removal left.
C29_EveryCheckAddsAMember ==
    \A i \in 1 .. Len(rl.checks) :
        rl.checks[i].pipe = "ok" => rl.checks[i].added

\* C30: a request that reaches a bucket whose youngest member is at least
\* windowSeconds old (no request came for windowSeconds, after a denial or
\* not) is admitted, and the members that were there have all left: the
\* cardinality read is 1.
C30_AdmittedAfterIdleWindow ==
    \A i \in 1 .. Len(rl.checks) :
        LET c == rl.checks[i]
        IN  (c.newest > 0 /\ rl.t - c.newest >= c.ws * 1000) =>
                /\ ~c.exceeded
                /\ rl.resp.status # 429
                /\ (c.pipe = "ok" => c.count = 1)

\* a bucket that held more than maxRequests members, so that its last request
\* was denied, received nothing for windowSeconds; the next request is admitted
C30_Witness ==
    /\ Len(rl.checks) = 1
    /\ rl.checks[1].pipe = "ok"
    /\ rl.checks[1].before = maxRequests + 1
    /\ rl.t - rl.checks[1].newest = windowSeconds * 1000
    /\ rl.checks[1].count = 1
    /\ rl.resp.status = 200

-----------------------------------------------------------------------------
(* Claims about the connection *)

\* C27: the availability flag is false before any connection event; a connect
\* or a ready event leaves it true, a close event leaves it false, and no other
\* step changes it (an error event and the request handlers leave it as it
\* is), so that the flag is true exactly when the last of the connect, ready
\* and close events was a connect or a ready.
C27_FlagFollowsLastEvent ==
    /\ ~redisAvailable
    /\ [][/\ (RedisConnect \/ RedisReady) => redisAvailable'
          /\ RedisClose => ~redisAvailable'
          /\ RedisError => redisAvailable' = redisAvailable
          /\ (nserves' # nserves \/ ncalls' # ncalls \/ riTasks' # riTasks) =>
                redisAvailable' = redisAvailable
          /\ redisAvailable' # redisAvailable =>
                (RedisConnect \/ RedisReady \/ RedisClose)]_vars

\* the flag is still true after the rate limiter and a serve read it
C27_Witness ==
    /\ redisAvailable
    /\ rl.impl = "layered" /\ rl.flag
    /\ sv.status = 200 /\ sv.flag

-----------------------------------------------------------------------------
(* Claims about the targeting functions *)

\* the positions of a profile's impressions of one ad that are younger than
\* 24 hours at the present clock
RecentOf(profile, adId) ==
    {j \in 1 .. Len(profile.impressions) :
        /\ profile.impressions[j].adId = adId
        /\ profile.impressions[j].timestamp > now - 24 * 3600 * 1000}

\* C7: filterByFrequencyCap keeps an ad exactly when the profile holds fewer
\* than 3 impressions of it younger than 24 hours and none of those is younger
\* than 2 hours.
C7_FrequencyCapKeeps ==
    fout.fn = "filterByFrequencyCap" =>
        \A i \in 1 .. Len(fin.ads) :
            LET ad == fin.ads[i]
                recent == RecentOf(fin.profile, ad.id)
            IN  (ad \in Range(fout.result.eligible)) <=>
                    /\ Cardinality(recent) < 3
                    /\ \A j \in recent :
                          fin.profile.impressions[j].timestamp <= now - 2 * 3600 * 1000

\* ad A is kept with two impressions of the last day, the younger exactly two
\* hours old, while ad B is dropped for three impressions of the last day
C7_Witness ==
    /\ fout.fn = "filterByFrequencyCap"
    /\ fout.result.eligible = <<AdPool["A"]>>
    /\ Cardinality(RecentOf(fin.profile, "A")) = 2
    /\ \E j \in RecentOf(fin.profile, "A") :
          fin.profile.impressions[j].timestamp = now - 2 * 3600 * 1000
    /\ Cardinality(RecentOf(fin.profile, "B")) = 3
    /\ \A j \in RecentOf(fin.profile, "B") :
          fin.profile.impressions[j].timestamp <= now - 2 * 3600 * 1000

\* the segment the thresholds 50,000 / 200,000 / 1,000,000 give a balance
SegmentOfBalance(balance) ==
    IF balance < 50000 THEN "low"
    ELSE IF balance < 200000 THEN "mass"
    ELSE IF balance < 1000000 THEN "affluent"
    ELSE "hnw"

\* C15: getSegment is total over balances >= 0 and returns low for
\* balance < 50,000, mass for 50,000 <= balance < 200,000, affluent for
\* 200,000 <= balance < 1,000,000 and hnw for balance >= 1,000,000.
C15_SegmentOfBalance ==
    fout.fn = "getSegment" =>
        /\ fout.result \in {"low", "mass", "affluent", "hnw"}
        /\ fout.result = SegmentOfBalance(fin.balance)

\* the slot of a wall-clock hour: morning [6,12), afternoon [12,17),
\* evening [17,21), night [21,24) and [0,6)
SlotOfHour(h) ==
    IF h \in 6 .. 11 THEN "morning"
    ELSE IF h \in 12 .. 16 THEN "afternoon"
    ELSE IF h \in 17 .. 20 THEN "evening"
    ELSE "night"

\* C16: getCurrentTimeSlot maps every wall-clock hour 0..23 to its slot,
\* morning for 6..11, afternoon for 12..16, evening for 17..20, night for
\* 21..23 and 0..5, and never falls through to the default return.
C16_SlotOfEveryHour ==
    fout.fn = "getCurrentTimeSlot" =>
        /\ fin.hour \in 0 .. 23
        /\ fout.result = SlotOfHour(fin.hour)
        /\ ~fout.default

\* an hour after midnight is night, through the range that wraps
C16_Witness ==
    /\ fout.fn = "getCurrentTimeSlot"
    /\ fin.hour = 3
    /\ fout.result = "night"

\* how many times x occurs in a sequence
Occurrences(seq, x) == Cardinality({i \in 1 .. Len(seq) : seq[i] = x})

\* C17: filterByTimeSlot keeps an ad exactly when its timeSlots is absent,
\* empty or contains the current slot, and every input ad is either in the
\* eligible list or has exactly one entry in the exclusion diagnostics, never
\* both.
C17_TimeSlotFilterKeeps ==
    fout.fn = "filterByTimeSlot" =>
        \A ad \in Range(fin.ads) :
            LET passes == \/ "timeSlots" \notin DOMAIN ad
                          \/ ad.timeSlots = {}
                          \/ SlotOfHour(fin.hour) \in ad.timeSlots
                given == Occurrences(fin.ads, ad)
                kept == Occurrences(fout.result.eligible, ad)
                noted == Occurrences(fout.result.excluded, ad.id)
            IN  /\ passes => kept = given /\ noted = 0
                /\ ~passes => kept = 0 /\ noted = given

\* at noon an ad stored without the field is kept and an evening-and-night ad
\* is noted as excluded
C17_Witness ==
    /\ fout.fn = "filterByTimeSlot"
    /\ fin.hour = 12
    /\ Len(fin.ads) = 2
    /\ fout.result.eligible = <<WithoutTimeSlots(AdPool["A"])>>
    /\ fout.result.excluded = <<"D">>

\* the place of an ad id in lexicographic order
IdRank(id) ==
    CASE id = "A" -> 1 [] id = "B" -> 2 [] id = "C" -> 3 [] id = "D" -> 4
      [] id = "E" -> 5 [] id = "F" -> 6 [] id = "G" -> 7 [] OTHER -> 8

\* x comes before y: higher score, then higher priority, then earlier
\* startDate, then smaller adId
RanksBefore(x, y) ==
    \/ x.score > y.score
    \/ /\ x.score = y.score
       /\ \/ x.ad.priority > y.ad.priority
          \/ /\ x.ad.priority = y.ad.priority
             /\ \/ x.ad.startDate < y.ad.startDate
                \/ /\ x.ad.startDate = y.ad.startDate
                   /\ IdRank(x.ad.id) < IdRank(y.ad.id)

\* the sum of a configuration's weights, in hundredths
WeightSum(w) == w.priority + w.ctr + w.recency + w.freshness

\* C22: the weights of the configuration (0.35, 0.25, 0.20, 0.20) sum to 1.0,
\* and no request is scored under a configuration whose weights do not sum to
\* 1.0 (within 0.001): the process does not start with one.
C22_WeightsSumToOne ==
    /\ scoreWeights = [priority |-> 35, ctr |-> 25, recency |-> 20, freshness |-> 20]
    /\ WeightSum(scoreWeights) = 100
    /\ (fout.fn = "startAndScore" /\ fout.started => WeightSum(fin.weights) = 100)

\* C19: the winner is the candidate with the highest composite score, ties
\* broken by higher priority, then earlier startDate, then adId in
\* lexicographic order, whatever order the candidates were returned in.
C19_WinnerByTieBreaks ==
    fout.fn = "scoreAds" =>
        \A i \in 1 .. Len(fout.scored) :
            fout.scored[i].ad.id # fout.winner =>
                \E j \in 1 .. Len(fout.scored) :
                    /\ fout.scored[j].ad.id = fout.winner
                    /\ RanksBefore(fout.scored[j], fout.scored[i])

-----------------------------------------------------------------------------
(* Claims about serving, recordImpression and createAd *)

\* the active ads of the catalog that match the segment and the channel of the
\* request just served, within their date range
MatchingNow ==
    {a \in catalog : /\ sv.key[2] \in a.segments
                     /\ sv.key[3] \in a.channels
                     /\ a.status = "active"
                     /\ a.startDate <= now /\ now <= a.endDate}

\* C1: a serve with valid input whose catalog query returns at least one ad
\* never answers 404, even when the two filters leave no candidate.
C1_NoEmptyAnswerOnMatches ==
    (sv.status # 0 /\ sv.status # 400 /\ sv.catalogQueries = 1 /\ sv.matched >= 1)
        => sv.status # 404

\* the frequency cap removed the only match (ad C, which runs all day), and
\* the serve answered 200 from the least-shown fallback
C1_Witness ==
    /\ sv.status = 200
    /\ sv.matched = 1
    /\ sv.leastShown
    /\ sv.body.adId = "C"

\* C2: with the KV unavailable (flag false, or the KV not answering), a serve
\* with valid input answers 200 with a matching ad whenever the catalog, which
\* answers, holds an active ad for the derived segment, the channel and today.
C2_ServesWithoutKv ==
    (/\ sv.status # 0 /\ sv.status # 400
     /\ (~sv.flag \/ ~sv.kv)
     /\ sv.catalogAnswers = 1
     /\ MatchingNow # {})
        => /\ sv.status = 200
           /\ sv.body.adId \in {a.id : a \in MatchingNow}

\* the flag is set, the KV does not answer, and the request is served
C2_Witness ==
    /\ sv.status = 200
    /\ sv.flag /\ ~sv.kv
    /\ sv.cacheWrites = 1
    /\ ~sv.body.fallback

\* C10: when the KV is available and the cache key holds a value at lookup
\* time, serve answers exactly that value, with no catalog query, no profile
\* read, no recordImpression and no cache write.
C10_CacheHitIsVerbatim ==
    (sv.status # 0 /\ sv.status # 400 /\ sv.flag /\ sv.kv /\ sv.held.has)
        => /\ sv.status = 200
           /\ sv.body = sv.held.val
           /\ sv.catalogQueries = 0
           /\ sv.profileReads = 0
           /\ sv.recordImpressions = 0
           /\ sv.cacheWrites = 0
           /\ cache[sv.key] = sv.held

C10_Witness ==
    /\ sv.status = 200
    /\ sv.hit
    /\ sv.held.has
    /\ sv.body.adId = "B"

\* C8: after a recordImpression that persists a profile at time now, every
\* impression of the stored profile is at most 24 hours old and the new
\* impression {adId, now} is among them.
C8_StoredProfileIsPruned ==
    (ri.done /\ ri.persisted)
        => /\ profiles[ri.key].has
           /\ \A e \in Range(profiles[ri.key].val.impressions) :
                 ri.t - e.timestamp <= 24 * 3600 * 1000
           /\ Impression(ri.adId, ri.t) \in Range(profiles[ri.key].val.impressions)

\* the profile read held impressions a day old and older, and a younger one
\* that the write kept
C8_Witness ==
    /\ ri.done /\ ri.persisted
    /\ \E e \in Range(ri.before.impressions) : ri.t - e.timestamp = 24 * 3600 * 1000
    /\ \E e \in Range(ri.before.impressions) : ri.t - e.timestamp > 24 * 3600 * 1000
    /\ Len(profiles[ri.key].val.impressions) = 2

\* C25: when recordImpression calls for one customer interleave their reads
\* and writes, the profile stored once all of them have finished is the one
\* the last writer wrote: what that writer had read, without the entries a
\* day old, followed by its new entry; so it holds at most one entry more
\* than the writer read, and at most the entries stored before the calls plus
\* one per call. (Entries other writers appended can be missing: the witness.)
C25_LastWriterWins ==
    (/\ ri.done /\ ri.persisted
     /\ \A j \in 1 .. Len(riTasks) : getUserProfileKey(riTasks[j].customerId) # ri.key)
        => /\ profiles[ri.key].has
           /\ profiles[ri.key].val = ri.stored
           /\ ri.stored.impressions =
                 SelectSeq(ri.before.impressions,
                           LAMBDA e : e.timestamp > ri.t - 24 * hourMs)
                     \o << Impression(ri.adId, ri.t) >>
           /\ Len(ri.stored.impressions) <= Len(ri.before.impressions) + 1
           /\ Len(ri.stored.impressions) <= Len(OldProfile.impressions) + nserves

\* two calls read the same profile; the second write left out the entry the
\* first one had appended
C25_Witness ==
    /\ ri.done /\ ri.persisted
    /\ riTasks = <<>>
    /\ nserves = 2
    /\ ri.lost # {}
    /\ \E e \in ri.lost : e \notin Range(ri.before.impressions)

\* C9: an invalidation started by a successful createAd, with the KV answering
\* its commands, removes every cache key ad:{S}:{C}:* that exists when the
\* pattern is scanned, for every S of body.segments and every C of
\* body.channels (ATM when channels is absent).
C9_InvalidationRemovesScanned ==
    (ca.inv.done /\ ca.inv.ok)
        => LET body == ca.inv.body
               segments == IF body.segments.t = "array" THEN body.segments.a
                           ELSE {body.segments.s}
               channels == IF body.channels = Undefined THEN {"ATM"}
                           ELSE body.channels.a
           IN  \A S \in segments, C \in channels :
                   /\ \E f \in ca.inv.found : f[1] = S /\ f[2] = C
                   /\ \A f \in ca.inv.found :
                         (f[1] = S /\ f[2] = C) => f[3] \cap ca.inv.after = {}

\* channels was absent, and the scan of ad:low:ATM:* found a key, which the
\* DEL removed
C9_Witness ==
    /\ ca.inv.done /\ ca.inv.ok
    /\ ca.inv.body.channels = Undefined
    /\ \E f \in ca.inv.found : f[2] = "ATM" /\ f[3] # {}
    /\ \A k \in CacheKeys : ~cache[k].has

\* the profile the serve just answered read: the stored one, or an empty one
\* when the KV did not answer or had none
ProfileRead ==
    LET key == getUserProfileKey(sv.key[4])
    IN  IF sv.kv /\ profiles[key].has THEN profiles[key].val
        ELSE [customerId |-> sv.key[4], impressions |-> <<>>, lastUpdated |-> now]

\* the matching ads that the time-slot filter and the frequency cap both let
\* through for the request just served
PassingNow ==
    {a \in MatchingNow :
        /\ a.timeSlots = {} \/ SlotOfHour((now \div 3600000) % 24) \in a.timeSlots
        /\ LET recent == RecentOf(ProfileRead, a.id)
           IN  /\ Cardinality(recent) < 3
               /\ \A j \in recent :
                     ProfileRead.impressions[j].timestamp <= now - 2 * 3600 * 1000}

\* C11: a serve that picks a winner through the main pipeline with the KV
\* available writes its response under the request's cache key, with TTL 30 s
\* when at most 3 candidates are left after the two filters (none left and
\* the least-shown fallback used included) and with TTL 120 s otherwise.
C11_AdaptiveTtl ==
    (sv.status = 200 /\ ~sv.hit /\ sv.catalogQueries = 1 /\ sv.flag /\ sv.kv)
        => LET ttl == IF Cardinality(PassingNow) <= 3 THEN 30 ELSE 120
           IN  /\ sv.cacheWrites = 1
               /\ sv.ttl = ttl
               /\ cache[sv.key].has
               /\ cache[sv.key].val = sv.body
               /\ cache[sv.key].exp = sv.t + ttl * 1000

\* four candidates passed both filters and the response is cached for 120 s
C11_Witness ==
    /\ sv.status = 200 /\ ~sv.hit /\ sv.flag /\ sv.kv
    /\ Cardinality(PassingNow) = 4
    /\ cache[sv.key].has
    /\ cache[sv.key].exp = sv.t + 120 * 1000

\* C12: when the catalog query returns ads and the two filters eliminate all
\* of them, the ad returned is one of the catalog query's ads whose
\* impressions count is minimal among them.
C12_FallbackIsLeastShown ==
    (/\ sv.status # 0 /\ sv.status # 400
     /\ ~sv.hit /\ sv.catalogQueries = 1
     /\ MatchingNow # {} /\ PassingNow = {})
        => /\ sv.status = 200
           /\ \E a \in MatchingNow :
                 /\ a.id = sv.body.adId
                 /\ \A b \in MatchingNow : a.impressions <= b.impressions

\* two ads matched, the night ad D and ad A in its cooldown; D, shown less
\* and of lower priority, is returned
C12_Witness ==
    /\ sv.status = 200
    /\ sv.matched = 2
    /\ PassingNow = {}
    /\ sv.leastShown
    /\ sv.body.adId = "D"

\* C13: when a failure escapes the main pipeline, serve runs the degraded
\* catalog query and answers 200 with fallback: true and the highest-priority
\* active matching ad when that query yields an ad, and 500 "Failed to serve
\* ad" when that query fails or yields nothing; it answers nothing else.
C13_DegradedPath ==
    (sv.status # 0 /\ sv.catalogQueries = 2)
        => \/ /\ sv.catalogAnswers = 1
              /\ MatchingNow # {}
              /\ sv.status = 200
              /\ sv.body.fallback
              /\ sv.body.segment = sv.key[2]
              /\ sv.body.channel = sv.key[3]
              /\ \E a \in MatchingNow :
                    /\ a.id = sv.body.adId
                    /\ \A b \in MatchingNow : b.priority <= a.priority
           \/ /\ sv.catalogAnswers = 0 \/ MatchingNow = {}
              /\ sv.status = 500
              /\ sv.body = [error |-> "Failed to serve ad"]

\* the main query failed and the degraded query returned one of several
\* matching ads of different priorities
C13_Witness ==
    /\ sv.status = 200
    /\ sv.catalogQueries = 2
    /\ sv.body.fallback
    /\ \E a, b \in MatchingNow : a.priority < b.priority

\* a request the validation is to reject: customerId missing, not a string,
\* empty or whitespace-only, or longer than 64 characters, or balance not a
\* number >= 0
Rejected(in) ==
    \/ in.customerId.t # "string"
    \/ /\ in.customerId.t = "string"
       /\ \/ \A i \in 1 .. Len(in.customerId.s) : in.customerId.s[i] = " "
          \/ Len(in.customerId.s) > 64
    \/ in.balance.t # "number"
    \/ in.balance.t = "number" /\ in.balance.n < 0

\* C14: a serve request with an invalid customerId or balance is answered 400
\* and causes no cache read or write, no profile read or write and no catalog
\* query.
C14_InvalidInputTouchesNothing ==
    [][\A in \in ValidServeInputs \cup InvalidServeInputs :
          (Rejected(in) /\ serveAds(in.customerId, in.balance, in.channel, in.db))
              => /\ sv'.status = 400
                 /\ sv'.cacheReads = 0 /\ sv'.cacheWrites = 0
                 /\ sv'.profileReads = 0 /\ sv'.recordImpressions = 0
                 /\ sv'.catalogQueries = 0
                 /\ cache' = cache /\ profiles' = profiles /\ riTasks' = riTasks]_vars

\* a negative balance was answered 400 while the flag was set and the KV
\* answered
C14_Witness ==
    /\ sv.status = 400
    /\ sv.body = [error |-> "balance must be a non-negative number"]
    /\ sv.flag /\ sv.kv

\* what the KV holds
KvState == <<cache, profiles, buckets, bucketExp>>

StageRank ==
    [received |-> 1, validated |-> 2, cache_hit |-> 3, cache_miss |-> 3,
     profile_loaded |-> 4, candidates_fetched |-> 5, filtered |-> 6, scored |-> 7,
     responded |-> 8, fallback_path |-> 8, error |-> 8]
TerminalStages == {"responded", "fallback_path", "error"}
BackgroundStarts == {"impression_recording", "cache_write"}

\* the stages of a path, without the background work started on the way
StagesOf(path) == SelectSeq(path, LAMBDA x : x \notin BackgroundStarts)

UnderCap(adId) ==
    LET recent == RecentOf(ProfileRead, adId)
    IN  /\ Cardinality(recent) < 3
        /\ \A j \in recent :
              ProfileRead.impressions[j].timestamp <= now - 2 * 3600 * 1000

\* C28 as stated: with the KV available, an ad returned to a customer by any
\* route but the least-shown fallback was returned to that customer fewer than
\* 3 times in the last 24 hours and not in the last 2 hours; the earlier
\* returns are the impressions of the customer's profile and, when the
\* request's cache key holds an answer, the serve that stored it (at most
\* 120 s ago).
C28_CapAcrossServes ==
    (sv.status = 200 /\ sv.flag /\ sv.kv /\ ~sv.leastShown)
        => /\ UnderCap(sv.body.adId)
           /\ ~(sv.held.has /\ sv.held.val.adId = sv.body.adId)

\* C28 amended: with the KV answering, a serve that takes its winner from the
\* candidates the two filters let through returns an ad of which the profile
\* it read holds fewer than 3 impressions younger than 24 hours and none
\* younger than 2 hours.
C28_CapOnFilteredServes ==
    (sv.status = 200 /\ sv.kv /\ ~sv.hit /\ sv.catalogQueries = 1 /\ ~sv.leastShown)
        => UnderCap(sv.body.adId)

\* the winner had been shown to the customer within the day, more than two
\* hours ago, and another matching ad was held back by the cap
C28_Witness ==
    /\ sv.status = 200 /\ sv.kv /\ ~sv.hit /\ sv.catalogQueries = 1 /\ ~sv.leastShown
    /\ RecentOf(ProfileRead, sv.body.adId) # {}
    /\ \E a \in MatchingNow : ~UnderCap(a.id)

\* C18: the status and the body of a serve response and of a createAd
\* response do not depend on the background tasks the request starts
\* (recordImpression, the cache write, the cache invalidation): whether the KV
\* takes their writes or not, and with the tasks still pending, a serve that
\* reached the catalog's matches answers 200 with the ad, and a createAd that
\* stored the ad answers 200.
C18_ResponseIgnoresTasks ==
    /\ (/\ sv.status # 0 /\ sv.status # 400
        /\ ~sv.hit /\ sv.catalogQueries = 1 /\ MatchingNow # {})
           => /\ sv.status = 200
              /\ \E a \in MatchingNow :
                    sv.body = [adId |-> a.id, segment |-> sv.key[2],
                               channel |-> sv.key[3], fallback |-> FALSE]
              /\ sv.recordImpressions = 1
              /\ \E i \in 1 .. Len(riTasks) :
                    /\ riTasks[i].customerId = sv.key[4]
                    /\ riTasks[i].adId = sv.body.adId
    /\ (ca.status # 0 /\ ca.created)
           => /\ ca.status = 200
              /\ ca.started = redisAvailable
              /\ ca.started => Len(invTasks) >= 1

\* the flag is set and the KV does not answer: the cache write is rejected,
\* the recordImpression is still pending, and the serve has answered 200
C18_Witness ==
    /\ sv.status = 200
    /\ sv.flag /\ ~sv.kv
    /\ sv.recordImpressions = 1 /\ sv.cacheWrites = 1
    /\ ~cache[sv.key].has
    /\ Len(riTasks) >= 1

-----------------------------------------------------------------------------
(* Claims about customer identity in the KV's keys *)

\* C31: a response that a serve call for customerId X reads from the
\* personalised cache was written by an earlier serve call with the same
\* customerId X, the same segment and the same channel; two different valid
\* customerIds share neither a cache key nor a user-profile key.
C31_HitWrittenBySameCustomer ==
    (sv.status = 200 /\ sv.hit)
       => /\ sv.held.by = sv.customerId.s
          /\ sv.held.val.segment = sv.key[2]
          /\ sv.held.val.channel = sv.key[3]

\* C33: an impression recorded through trackImpression with a customerId is
\* stored in the user profile that a serve call for that customerId loads
\* (step 2 reads the profile of the sanitized id), for every valid customerId.
C33_TrackedImpressionInServedProfile ==
    \A c \in TwinCustomers :
       (ri.done /\ ri.persisted /\ ri.customerId = TrackedCustomer(c))
          => /\ ri.key = getUserProfileKey(sanitize(c.s))
             /\ \E j \in 1 .. Len(getUserProfile(sanitize(c.s)).impressions) :
                   getUserProfile(sanitize(c.s)).impressions[j] = Impression(ri.adId, ri.t)

-----------------------------------------------------------------------------
(* Claims about invalidation beside serves *)

\* the cache keys the invalidation of a createAd body scans for
InvalidatedKeys(body) ==
    {k \in CacheKeys :
        \E pattern \in InvalidatedSegments(body) \X InvalidatedChannels(body) :
           Matches(pattern, k)}

\* C32: once the invalidation started by createAd for segment S and channel C
\* has completed, the cache holds no entry under ad:S:C:* that was computed
\* from a catalog query executed before the ad was created, the entries
\* written by serve calls in flight during the invalidation included.
C32_NoStaleEntryAfterInvalidation ==
    \A body \in invDone :
       \A k \in InvalidatedKeys(body) :
          cache[k].has => body.adId \in cache[k].queried

====
